---- MODULE Spec2Model ----
(***************************************************************************)
(* Model of the scan-conversion and clipping library of the Airplane game  *)
(* (graphics_algorithms.py).  Each library function is run as a small      *)
(* state machine: a call action that sets up the locals, one action per    *)
(* loop iteration, and a return action.  Every function has its own        *)
(* specification (SpecLine, SpecClip, ...), whose initial states draw the  *)
(* arguments from bounded sets.                                            *)
(***************************************************************************)
EXTENDS Integers, Sequences, FiniteSets, TLC

VARIABLES
    win,    \* the clipper object's fields <<x_min, y_min, x_max, y_max>>
    args,   \* the arguments of the call being executed
    pc,     \* position of the call
    loc,    \* the local variables of the call
    ret     \* the returned value

vars == <<win, args, pc, loc, ret>>

\* ------------------------------------------------------------------ bounds

\* Bresenham endpoints are drawn from -MaxCoord..MaxCoord.
MaxCoord == 3

NoWin == <<0, 0, 0, 0>>
NoLoc == [none |-> TRUE]
NoRet == <<>>

\* ----------------------------------------------------------------- helpers

Abs(n) == IF n < 0 THEN -n ELSE n
Max(a, b) == IF a > b THEN a ELSE b
Min(a, b) == IF a < b THEN a ELSE b

\* The set of the elements of a list: Python's set(points).
PointSet(s) == {s[i] : i \in 1..Len(s)}

\* ------------------------------------------------------- bresenham_line

\* A plausible slip: the minor-axis sign is taken as +1 whatever the direction.
BresenhamInitNoSign(x1, y1, x2, y2) ==
    LET dx == Abs(x2 - x1)
        dy == Abs(y2 - y1)
    IN  [dx |-> dx, dy |-> dy, x |-> x1, y |-> y1,
         sx |-> 1, sy |-> 1,
         p |-> IF dx > dy THEN 2 * dy - dx ELSE 2 * dx - dy,
         i |-> 0, points |-> <<>>]

\* A plausible slip: the error accumulator starts at 2*minor (the -major is
\* forgotten).
BresenhamInitNoBias(x1, y1, x2, y2) ==
    LET dx == Abs(x2 - x1)
        dy == Abs(y2 - y1)
    IN  [dx |-> dx, dy |-> dy, x |-> x1, y |-> y1,
         sx |-> IF x2 > x1 THEN 1 ELSE -1,
         sy |-> IF y2 > y1 THEN 1 ELSE -1,
         p |-> IF dx > dy THEN 2 * dy ELSE 2 * dx,
         i |-> 0, points |-> <<>>]

\* Lines 18-30 and 40: the locals before the loop (i counts the iterations of
\* `for _ in range(...)`).
BresenhamInit(x1, y1, x2, y2) ==
    LET dx == Abs(x2 - x1)
        dy == Abs(y2 - y1)
    IN  [dx |-> dx, dy |-> dy, x |-> x1, y |-> y1,
         sx |-> IF x2 > x1 THEN 1 ELSE -1,
         sy |-> IF y2 > y1 THEN 1 ELSE -1,
         p |-> IF dx > dy THEN 2 * dy - dx ELSE 2 * dx - dy,
         i |-> 0, points |-> <<>>]

\* A plausible slip: range(dx) in place of range(dx + 1).
BresenhamMoreShort(l) ==
    l.i < (IF l.dx > l.dy THEN l.dx ELSE l.dy)

\* The loop condition: range(dx + 1) when dx > dy, range(dy + 1) otherwise.
BresenhamMore(l) ==
    l.i < (IF l.dx > l.dy THEN l.dx ELSE l.dy) + 1

\* One iteration of the loop of the branch taken.
BresenhamBody(l) ==
    IF l.dx > l.dy
    THEN [l EXCEPT !.points = Append(@, <<l.x, l.y>>),
                   !.y = IF l.p >= 0 THEN @ + l.sy ELSE @,
                   !.p = (IF l.p >= 0 THEN @ - 2 * l.dx ELSE @) + 2 * l.dy,
                   !.x = @ + l.sx,
                   !.i = @ + 1]
    ELSE [l EXCEPT !.points = Append(@, <<l.x, l.y>>),
                   !.x = IF l.p >= 0 THEN @ + l.sx ELSE @,
                   !.p = (IF l.p >= 0 THEN @ - 2 * l.dy ELSE @) + 2 * l.dx,
                   !.y = @ + l.sy,
                   !.i = @ + 1]

RECURSIVE BresenhamRun(_)
BresenhamRun(l) == IF BresenhamMore(l) THEN BresenhamRun(BresenhamBody(l)) ELSE l

\* The whole function, as a value.
bresenham_line(x1, y1, x2, y2) == BresenhamRun(BresenhamInit(x1, y1, x2, y2)).points

Coord == (-MaxCoord)..MaxCoord

InitLine ==
    /\ win = NoWin
    /\ args \in [x1 : Coord, y1 : Coord, x2 : Coord, y2 : Coord]
    /\ pc = "line_call"
    /\ loc = NoLoc
    /\ ret = NoRet

BresenhamCall ==
    /\ pc = "line_call"
    /\ loc' = BresenhamInit(args.x1, args.y1, args.x2, args.y2)
    /\ pc' = "line_loop"
    /\ UNCHANGED <<win, args, ret>>

BresenhamStep ==
    /\ pc = "line_loop"
    /\ BresenhamMore(loc)
    /\ loc' = BresenhamBody(loc)
    /\ UNCHANGED <<win, args, pc, ret>>

BresenhamReturn ==
    /\ pc = "line_loop"
    /\ ~BresenhamMore(loc)
    /\ ret' = loc.points
    /\ pc' = "line_done"
    /\ UNCHANGED <<win, args, loc>>

NextLine == BresenhamCall \/ BresenhamStep \/ BresenhamReturn

SpecLine == InitLine /\ [][NextLine]_vars

\* --- claims about bresenham_line

LineDx == args.x2 - args.x1
LineDy == args.y2 - args.y1
LineMajor == Max(Abs(LineDx), Abs(LineDy))
LineMinor == Min(Abs(LineDx), Abs(LineDy))
Sign(n) == IF n > 0 THEN 1 ELSE -1

\* C1: bresenham_line returns exactly max(|dx|,|dy|)+1 points, the first
\* (x1,y1) and the last (x2,y2); consecutive points differ by exactly one unit
\* along the dominant axis, towards the second endpoint, and by at most one
\* unit along the minor axis.
C1_LineShape ==
    pc = "line_done" =>
        /\ Len(ret) = LineMajor + 1
        /\ ret[1] = <<args.x1, args.y1>>
        /\ ret[Len(ret)] = <<args.x2, args.y2>>
        /\ \A k \in 1..(Len(ret) - 1) :
              IF Abs(LineDx) > Abs(LineDy)
              THEN /\ ret[k + 1][1] - ret[k][1] = Sign(LineDx)
                   /\ Abs(ret[k + 1][2] - ret[k][2]) <= 1
              ELSE /\ ret[k + 1][2] - ret[k][2] = Sign(LineDy)
                   /\ Abs(ret[k + 1][1] - ret[k][1]) <= 1

\* A returned line with both a dominant and a minor extent, going backwards.
C1_Witness ==
    /\ pc = "line_done"
    /\ LineMinor > 0
    /\ LineMajor > LineMinor
    /\ LineDx < 0
    /\ Len(ret) = LineMajor + 1

\* The ideal line passes exactly halfway between two pixels at some step.
LineHasTie ==
    \E k \in 0..LineMajor : (2 * LineMinor * k) % (2 * LineMajor) = LineMajor

Reflected(points) ==
    {<<args.x1 + args.x2 - q[1], args.y1 + args.y2 - q[2]>> : q \in PointSet(points)}

\* C2 as stated: the forward and the swapped call return the same set of points.
C2_SwapSameSet ==
    pc = "line_done" =>
        PointSet(ret) = PointSet(bresenham_line(args.x2, args.y2, args.x1, args.y1))

\* C2 as amended: the swapped call returns the forward set reflected through
\* the midpoint of the endpoints, and the two sets are identical exactly when
\* the ideal line never passes halfway between two pixels.
C2_SwapReflects ==
    pc = "line_done" =>
        LET back == PointSet(bresenham_line(args.x2, args.y2, args.x1, args.y1))
        IN  /\ back = Reflected(ret)
            /\ (back = PointSet(ret)) <=> ~(LineMajor > 0 /\ LineHasTie)

\* A returned line with a tie, whose swapped call differs.
C2_Witness ==
    /\ pc = "line_done"
    /\ LineMajor > 0
    /\ LineHasTie
    /\ PointSet(ret) # PointSet(bresenham_line(args.x2, args.y2, args.x1, args.y1))

\* C3: every returned point is within half a unit of the ideal line, measured
\* along the minor axis: 2*|dy*(x-x1) - dx*(y-y1)| <= max(|dx|,|dy|).
C3_LineNearIdeal ==
    pc = "line_done" =>
        \A k \in 1..Len(ret) :
            2 * Abs(LineDy * (ret[k][1] - args.x1) - LineDx * (ret[k][2] - args.y1))
                <= LineMajor

\* A returned line with a point exactly half a unit off the ideal line.
C3_Witness ==
    /\ pc = "line_done"
    /\ LineMinor > 0
    /\ \E k \in 1..Len(ret) :
          2 * Abs(LineDy * (ret[k][1] - args.x1) - LineDx * (ret[k][2] - args.y1))
              = LineMajor

\* ------------------------------------------------------ float arithmetic

\* Coordinates of clipped geometry are Python floats.  The model computes them
\* exactly, as fractions <<numerator, denominator>> in lowest terms with a
\* positive denominator; on the small integer inputs explored every quotient
\* below is a fraction with a one-digit denominator.
RECURSIVE GCD(_, _)
GCD(a, b) == IF b = 0 THEN a ELSE GCD(b, a % b)

Rat(n, d) ==
    LET g == GCD(Abs(n), Abs(d))
        s == IF d < 0 THEN -1 ELSE 1
    IN  <<(s * n) \div g, (s * d) \div g>>

RInt(n) == <<n, 1>>
RAdd(a, b) == Rat(a[1] * b[2] + b[1] * a[2], a[2] * b[2])
RSub(a, b) == Rat(a[1] * b[2] - b[1] * a[2], a[2] * b[2])
RMul(a, b) == Rat(a[1] * b[1], a[2] * b[2])
RDiv(a, b) == Rat(a[1] * b[2], a[2] * b[1])
RLt(a, b) == a[1] * b[2] < b[1] * a[2]
RLe(a, b) == a[1] * b[2] <= b[1] * a[2]
RZero == RInt(0)

\* --------------------------------------------------------- CohenSutherland

INSIDE == 0
LEFT == 1
RIGHT == 2
BOTTOM == 4
TOP == 8

\* code & bit, as a truth value.
HasBit(code, bit) == (code \div bit) % 2 = 1

\* code1 & code2.
BitAnd(c1, c2) ==
    (IF HasBit(c1, LEFT) /\ HasBit(c2, LEFT) THEN LEFT ELSE 0)
    + (IF HasBit(c1, RIGHT) /\ HasBit(c2, RIGHT) THEN RIGHT ELSE 0)
    + (IF HasBit(c1, BOTTOM) /\ HasBit(c2, BOTTOM) THEN BOTTOM ELSE 0)
    + (IF HasBit(c1, TOP) /\ HasBit(c2, TOP) THEN TOP ELSE 0)

\* w = <<x_min, y_min, x_max, y_max>>, the fields of the clipper.
compute_code(w, x, y) ==
    (IF RLt(x, RInt(w[1])) THEN LEFT
     ELSE IF RLt(RInt(w[3]), x) THEN RIGHT ELSE INSIDE)
    + (IF RLt(y, RInt(w[2])) THEN BOTTOM
       ELSE IF RLt(RInt(w[4]), y) THEN TOP ELSE INSIDE)

\* Lines 399-400: the locals on entry to the loop.  `iter` counts the endpoint
\* replacements and `raised` records a ZeroDivisionError.
ClipInit(w, x1, y1, x2, y2) ==
    [x1 |-> x1, y1 |-> y1, x2 |-> x2, y2 |-> y2,
     code1 |-> compute_code(w, x1, y1),
     code2 |-> compute_code(w, x2, y2),
     iter |-> 0, raised |-> FALSE]

\* (code1 | code2) == 0
ClipTrivialAccept(l) == l.code1 = 0 /\ l.code2 = 0

\* A plausible slip: the outcodes are compared for equality instead of and-ed.
ClipTrivialRejectEq(l) == l.code1 = l.code2 /\ l.code1 # 0

\* (code1 & code2) != 0
ClipTrivialReject(l) == BitAnd(l.code1, l.code2) # 0

\* code_out = code1 if code1 != 0 else code2
ClipCodeOut(l) == IF l.code1 # 0 THEN l.code1 ELSE l.code2

\* The divisor of the interpolation the iteration executes.
ClipDivisor(l) ==
    IF HasBit(ClipCodeOut(l), TOP) \/ HasBit(ClipCodeOut(l), BOTTOM)
    THEN RSub(l.y2, l.y1)
    ELSE RSub(l.x2, l.x1)

\* A plausible slip: the interpolation forgets the offset of the first endpoint.
ClipIntersectNoOffset(w, l) ==
    LET c == ClipCodeOut(l)
        dx == RSub(l.x2, l.x1)
        dy == RSub(l.y2, l.y1)
    IN  IF HasBit(c, TOP)
        THEN <<RDiv(RMul(dx, RSub(RInt(w[4]), l.y1)), dy), RInt(w[4])>>
        ELSE IF HasBit(c, BOTTOM)
        THEN <<RDiv(RMul(dx, RSub(RInt(w[2]), l.y1)), dy), RInt(w[2])>>
        ELSE IF HasBit(c, RIGHT)
        THEN <<RInt(w[3]), RDiv(RMul(dy, RSub(RInt(w[3]), l.x1)), dx)>>
        ELSE <<RInt(w[1]), RDiv(RMul(dy, RSub(RInt(w[1]), l.x1)), dx)>>

\* A plausible slip: the vertical boundaries tested before the horizontal ones
\* (RIGHT, LEFT, TOP, BOTTOM).
ClipIntersectSidesFirst(w, l) ==
    LET c == ClipCodeOut(l)
        dx == RSub(l.x2, l.x1)
        dy == RSub(l.y2, l.y1)
    IN  IF HasBit(c, RIGHT)
        THEN <<RInt(w[3]), RAdd(l.y1, RDiv(RMul(dy, RSub(RInt(w[3]), l.x1)), dx))>>
        ELSE IF HasBit(c, LEFT)
        THEN <<RInt(w[1]), RAdd(l.y1, RDiv(RMul(dy, RSub(RInt(w[1]), l.x1)), dx))>>
        ELSE IF HasBit(c, TOP)
        THEN <<RAdd(l.x1, RDiv(RMul(dx, RSub(RInt(w[4]), l.y1)), dy)), RInt(w[4])>>
        ELSE <<RAdd(l.x1, RDiv(RMul(dx, RSub(RInt(w[2]), l.y1)), dy)), RInt(w[2])>>

\* Lines 417-428: the intersection <<x, y>> with the boundary of the first bit
\* of code_out in the order TOP, BOTTOM, RIGHT, LEFT (used only where the
\* divisor is not zero).
ClipIntersect(w, l) ==
    LET c == ClipCodeOut(l)
        dx == RSub(l.x2, l.x1)
        dy == RSub(l.y2, l.y1)
    IN  IF HasBit(c, TOP)
        THEN <<RAdd(l.x1, RDiv(RMul(dx, RSub(RInt(w[4]), l.y1)), dy)), RInt(w[4])>>
        ELSE IF HasBit(c, BOTTOM)
        THEN <<RAdd(l.x1, RDiv(RMul(dx, RSub(RInt(w[2]), l.y1)), dy)), RInt(w[2])>>
        ELSE IF HasBit(c, RIGHT)
        THEN <<RInt(w[3]), RAdd(l.y1, RDiv(RMul(dy, RSub(RInt(w[3]), l.x1)), dx))>>
        ELSE <<RInt(w[1]), RAdd(l.y1, RDiv(RMul(dy, RSub(RInt(w[1]), l.x1)), dx))>>

\* Lines 411-436: one pass through the else branch.  A zero divisor raises
\* ZeroDivisionError, which ends the call.
ClipIteration(w, l) ==
    IF ClipDivisor(l) = RZero
    THEN [l EXCEPT !.raised = TRUE]
    ELSE LET q == ClipIntersect(w, l)
         IN  IF ClipCodeOut(l) = l.code1
             THEN [l EXCEPT !.x1 = q[1], !.y1 = q[2],
                            !.code1 = compute_code(w, q[1], q[2]),
                            !.iter = @ + 1]
             ELSE [l EXCEPT !.x2 = q[1], !.y2 = q[2],
                            !.code2 = compute_code(w, q[1], q[2]),
                            !.iter = @ + 1]

Accepted(l) == [accepted |-> TRUE, seg |-> <<l.x1, l.y1, l.x2, l.y2>>, raised |-> FALSE]
Rejected == [accepted |-> FALSE, seg |-> <<RZero, RZero, RZero, RZero>>, raised |-> FALSE]
Raised == [accepted |-> FALSE, seg |-> <<>>, raised |-> TRUE]

RECURSIVE ClipRun(_, _)
ClipRun(w, l) ==
    IF l.raised THEN Raised
    ELSE IF ClipTrivialAccept(l) THEN Accepted(l)
    ELSE IF ClipTrivialReject(l) THEN Rejected
    ELSE ClipRun(w, ClipIteration(w, l))

\* The whole method, as a value.
clip_line(w, x1, y1, x2, y2) ==
    ClipRun(w, ClipInit(w, RInt(x1), RInt(y1), RInt(x2), RInt(y2)))

\* Windows <<0, 0, x_max, y_max>> up to MaxWin wide and high (zero width and
\* height included).
MaxWin == 2

Windows == {<<0, 0, xm, ym>> : xm \in 0..MaxWin, ym \in 0..MaxWin}
ClipCoord == (-2)..(MaxWin + 2)
ClipArgs == [x1 : ClipCoord, y1 : ClipCoord, x2 : ClipCoord, y2 : ClipCoord]

\* The two lines the specification gives for the window (0,0,10,10).
ClipExamples ==
    {[x1 |-> -5, y1 |-> 5, x2 |-> 15, y2 |-> 5],
     [x1 |-> -5, y1 |-> -5, x2 |-> -1, y2 |-> -1]}

InitClip ==
    /\ \/ win \in Windows /\ args \in ClipArgs
       \/ win = <<0, 0, 10, 10>> /\ args \in ClipExamples
    /\ pc = "clip_call"
    /\ loc = NoLoc
    /\ ret = NoRet

ClipCall ==
    /\ pc = "clip_call"
    /\ loc' = ClipInit(win, RInt(args.x1), RInt(args.y1), RInt(args.x2), RInt(args.y2))
    /\ pc' = "clip_loop"
    /\ UNCHANGED <<win, args, ret>>

ClipAccept ==
    /\ pc = "clip_loop"
    /\ ClipTrivialAccept(loc)
    /\ ret' = Accepted(loc)
    /\ pc' = "clip_done"
    /\ UNCHANGED <<win, args, loc>>

ClipReject ==
    /\ pc = "clip_loop"
    /\ ~ClipTrivialAccept(loc)
    /\ ClipTrivialReject(loc)
    /\ ret' = Rejected
    /\ pc' = "clip_done"
    /\ UNCHANGED <<win, args, loc>>

ClipReplace ==
    /\ pc = "clip_loop"
    /\ ~ClipTrivialAccept(loc)
    /\ ~ClipTrivialReject(loc)
    /\ loc' = ClipIteration(win, loc)
    /\ IF loc'.raised
       THEN pc' = "clip_raised" /\ ret' = Raised
       ELSE pc' = "clip_loop" /\ ret' = ret
    /\ UNCHANGED <<win, args>>

NextClip == ClipCall \/ ClipAccept \/ ClipReject \/ ClipReplace

SpecClip == InitClip /\ [][NextClip]_vars

\* --- claims about CohenSutherland.clip_line

InWindow(w, x, y) ==
    /\ RLe(RInt(w[1]), x) /\ RLe(x, RInt(w[3]))
    /\ RLe(RInt(w[2]), y) /\ RLe(y, RInt(w[4]))

\* The position of the point <<x, y>> along the argument segment, as the dot
\* product with the segment's direction, and its offset from the segment's line.
ArgA == <<RInt(args.x1), RInt(args.y1)>>
ArgD == <<RInt(args.x2 - args.x1), RInt(args.y2 - args.y1)>>
Along(x, y) ==
    RAdd(RMul(RSub(x, ArgA[1]), ArgD[1]), RMul(RSub(y, ArgA[2]), ArgD[2]))
Across(x, y) ==
    RSub(RMul(RSub(x, ArgA[1]), ArgD[2]), RMul(RSub(y, ArgA[2]), ArgD[1]))
ArgLen2 == Along(RInt(args.x2), RInt(args.y2))

ClipAboutToReplace ==
    pc = "clip_loop" /\ ~ClipTrivialAccept(loc) /\ ~ClipTrivialReject(loc)

\* C5 as stated: for the clipper at hand there is a segment (exactly horizontal
\* or vertical, or any other) on which clip_line divides by zero.
C5_ZeroDivisorReachable ==
    \E a \in ClipArgs \cup ClipExamples :
        clip_line(win, a.x1, a.y1, a.x2, a.y2).raised

\* C5 as amended: the interpolation is unguarded, but whenever it is executed
\* its divisor is not zero (the endpoint replaced lies strictly beyond the
\* boundary tested and the other endpoint does not), so no call raises.
C5_DivisorNeverZero ==
    /\ ClipAboutToReplace => ClipDivisor(loc) # RZero
    /\ pc # "clip_raised"

\* An exactly horizontal segment about to be cut at the right or left boundary,
\* and so divided by x2 - x1.
C5_Witness ==
    /\ ClipAboutToReplace
    /\ loc.y1 = loc.y2
    /\ ~HasBit(ClipCodeOut(loc), TOP)
    /\ ~HasBit(ClipCodeOut(loc), BOTTOM)
    /\ loc.iter = 1

\* Both argument endpoints lie strictly beyond the same boundary of the window.
ArgsBeyondSameBoundary ==
    \/ args.x1 < win[1] /\ args.x2 < win[1]
    \/ args.x1 > win[3] /\ args.x2 > win[3]
    \/ args.y1 < win[2] /\ args.y2 < win[2]
    \/ args.y1 > win[4] /\ args.y2 > win[4]

\* C6: in any iteration where the two outcodes share a bit (and are not both
\* zero) the call returns rejected with no segment; so every segment with both
\* endpoints beyond the same boundary is rejected, (-5,-5)-(-1,-1) against
\* (0,0,10,10) among them.
C6_SharedBitRejects ==
    /\ [][(pc = "clip_loop" /\ BitAnd(loc.code1, loc.code2) # 0)
            => (pc' = "clip_done" /\ ret' = Rejected)]_vars
    /\ [](pc = "clip_done" /\ ArgsBeyondSameBoundary => ret = Rejected)

\* A segment rejected only after an endpoint was replaced.
C6_Witness ==
    /\ pc = "clip_done"
    /\ ret = Rejected
    /\ loc.iter > 0
    /\ BitAnd(loc.code1, loc.code2) # 0

\* ------------------------------------------------------- SutherlandHodgman

\* inside(p) for the clip edge from es to ee: the cross product of (ee - es)
\* with (p - es) is not negative.  es and ee are window corners (integers).
EdgeCross(p, es, ee) ==
    RSub(RMul(RInt(ee[1] - es[1]), RSub(p[2], RInt(es[2]))),
         RMul(RInt(ee[2] - es[2]), RSub(p[1], RInt(es[1]))))

EdgeInside(p, es, ee) == RLe(RZero, EdgeCross(p, es, ee))

\* abs(denom) < 1e-10.  A non-zero fraction n/d has |n/d| >= 1/d, and every
\* denominator the model meets is far below 10^10, so the test is denom = 0.
NearZero(r) == r[1] = 0

\* intersection(p1, p2) with the clip edge from es to ee.
EdgeIntersection(p1, p2, es, ee) ==
    LET x1 == p1[1]
        y1 == p1[2]
        x2 == p2[1]
        y2 == p2[2]
        x3 == RInt(es[1])
        y3 == RInt(es[2])
        x4 == RInt(ee[1])
        y4 == RInt(ee[2])
        denom == RSub(RMul(RSub(x1, x2), RSub(y3, y4)), RMul(RSub(y1, y2), RSub(x3, x4)))
        t == RDiv(RSub(RMul(RSub(x1, x3), RSub(y3, y4)), RMul(RSub(y1, y3), RSub(x3, x4))),
                  denom)
    IN  IF NearZero(denom)
        THEN p1
        ELSE <<RAdd(x1, RMul(t, RSub(x2, x1))), RAdd(y1, RMul(t, RSub(y2, y1)))>>

\* A plausible slip: on the way back inside only the intersection is appended,
\* the vertex itself is forgotten.
EdgeEmitNoNext(polygon, i, es, ee) ==
    LET current == polygon[i]
        next_vertex == polygon[(i % Len(polygon)) + 1]
    IN  IF EdgeInside(current, es, ee)
        THEN IF EdgeInside(next_vertex, es, ee)
             THEN <<next_vertex>>
             ELSE <<EdgeIntersection(current, next_vertex, es, ee)>>
        ELSE IF EdgeInside(next_vertex, es, ee)
             THEN <<EdgeIntersection(current, next_vertex, es, ee)>>
             ELSE <<>>

\* What iteration i of the loop of _clip_edge appends to output.
EdgeEmit(polygon, i, es, ee) ==
    LET current == polygon[i]
        next_vertex == polygon[(i % Len(polygon)) + 1]
    IN  IF EdgeInside(current, es, ee)
        THEN IF EdgeInside(next_vertex, es, ee)
             THEN <<next_vertex>>
             ELSE <<EdgeIntersection(current, next_vertex, es, ee)>>
        ELSE IF EdgeInside(next_vertex, es, ee)
             THEN <<EdgeIntersection(current, next_vertex, es, ee), next_vertex>>
             ELSE <<>>

RECURSIVE ClipEdgeFrom(_, _, _, _)
ClipEdgeFrom(polygon, i, es, ee) ==
    IF i > Len(polygon) THEN <<>>
    ELSE EdgeEmit(polygon, i, es, ee) \o ClipEdgeFrom(polygon, i + 1, es, ee)

\* _clip_edge(polygon, edge_start, edge_end)
clip_edge(polygon, es, ee) ==
    IF Len(polygon) = 0 THEN <<>> ELSE ClipEdgeFrom(polygon, 1, es, ee)

\* The four edges of the window w, counter-clockwise: bottom, right, top, left.
WindowEdges(w) ==
    << <<(<<w[1], w[2]>>), (<<w[3], w[2]>>)>>,
       <<(<<w[3], w[2]>>), (<<w[3], w[4]>>)>>,
       <<(<<w[3], w[4]>>), (<<w[1], w[4]>>)>>,
       <<(<<w[1], w[4]>>), (<<w[1], w[2]>>)>> >>

\* A plausible slip: the loop without its break on an empty output.
PolyMoreNoBreak(l) == l.k <= 4

\* The loop of clip_polygon has more to do: edges are left and output is not
\* empty (the break).
PolyMore(l) == l.k <= 4 /\ Len(l.output) # 0

\* One iteration of the loop of clip_polygon: the pass against edge k.
\* `took` and `edge` record the arguments of the call of _clip_edge.
PolyPass(w, l) ==
    [l EXCEPT !.output = clip_edge(l.output, WindowEdges(w)[l.k][1], WindowEdges(w)[l.k][2]),
              !.k = @ + 1,
              !.passes = Append(@, l.k),
              !.took = l.output,
              !.edge = WindowEdges(w)[l.k]]

RECURSIVE PolyRun(_, _)
PolyRun(w, l) == IF PolyMore(l) THEN PolyRun(w, PolyPass(w, l)) ELSE l

\* A list of integer vertices as the list of float vertices the call works on.
AsFloats(polygon) == [i \in 1..Len(polygon) |-> <<RInt(polygon[i][1]), RInt(polygon[i][2])>>]

\* output = polygon[:] ; `passes` records the edges clipped against.
PolyInit(polygon) ==
    [output |-> AsFloats(polygon), k |-> 1, passes |-> <<>>, took |-> <<>>, edge |-> <<>>]

\* The whole method, as a value.
clip_polygon(w, polygon) == PolyRun(w, PolyInit(polygon)).output

\* Polygon vertices are drawn from the grid (-2..MaxPoly) x (-2..MaxPoly), and
\* windows are <<-1, -1, x_max, y_max>> with x_max, y_max in -1..0 (zero width
\* and height included).
MaxPoly == 1

PolyCoord == (-2)..MaxPoly
PolyPoint == PolyCoord \X PolyCoord
PolyWindows == {<<-1, -1, xm, ym>> : xm \in (-1)..0, ym \in (-1)..0}

Rotate(s, n) == [i \in 1..Len(s) |-> s[((i + n - 1) % Len(s)) + 1]]
Rotations(s) == {Rotate(s, n) : n \in 0..(Len(s) - 1)}

\* The counter-clockwise rectangle with corners (x0,y0) and (x1,y1).
Rect(x0, y0, x1, y1) == << <<x0, y0>>, <<x1, y0>>, <<x1, y1>>, <<x0, y1>> >>

Triangles == {<<a, b, c>> : a \in PolyPoint, b \in PolyPoint, c \in PolyPoint}
Rectangles ==
    UNION {Rotations(Rect(x0, y0, x1, y1)) :
              <<x0, y0, x1, y1>> \in
                  {q \in PolyCoord \X PolyCoord \X PolyCoord \X PolyCoord :
                      q[1] < q[3] /\ q[2] < q[4]}}

\* The polygon the specification clips against the window (0,0,10,10).
PolyExample == Rect(-5, -5, 5, 5)

InitPoly ==
    /\ \/ win \in PolyWindows /\ args \in Triangles \cup Rectangles
       \/ win = <<0, 0, 10, 10>> /\ args = PolyExample
    /\ pc = "poly_call"
    /\ loc = NoLoc
    /\ ret = NoRet

PolyCall ==
    /\ pc = "poly_call"
    /\ loc' = PolyInit(args)
    /\ pc' = "poly_loop"
    /\ UNCHANGED <<win, args, ret>>

PolyStep ==
    /\ pc = "poly_loop"
    /\ PolyMore(loc)
    /\ loc' = PolyPass(win, loc)
    /\ UNCHANGED <<win, args, pc, ret>>

PolyReturn ==
    /\ pc = "poly_loop"
    /\ ~PolyMore(loc)
    /\ ret' = loc.output
    /\ pc' = "poly_done"
    /\ UNCHANGED <<win, args, loc>>

NextPoly == PolyCall \/ PolyStep \/ PolyReturn

SpecPoly == InitPoly /\ [][NextPoly]_vars

\* --- claims about SutherlandHodgman.clip_polygon

\* The argument is a rotation of the counter-clockwise rectangle x0 < x1, y0 < y1.
ArgBox == <<Min(args[1][1], args[3][1]), Min(args[1][2], args[3][2]),
            Max(args[1][1], args[3][1]), Max(args[1][2], args[3][2])>>
ArgIsRect ==
    /\ Len(args) = 4
    /\ ArgBox[1] < ArgBox[3]
    /\ ArgBox[2] < ArgBox[4]
    /\ args \in Rotations(Rect(ArgBox[1], ArgBox[2], ArgBox[3], ArgBox[4]))

\* The intersection of the argument rectangle with the window.
CutBox == <<Max(ArgBox[1], win[1]), Max(ArgBox[2], win[2]),
            Min(ArgBox[3], win[3]), Min(ArgBox[4], win[4])>>
\* The rectangle meets a window of positive area (if only along an edge or at
\* a corner, the intersection rectangle is flat and its corners coincide).
Overlaps ==
    /\ win[1] < win[3] /\ win[2] < win[4]
    /\ CutBox[1] <= CutBox[3] /\ CutBox[2] <= CutBox[4]

PolyBeyondOneBoundary ==
    \/ \A i \in 1..Len(args) : args[i][1] < win[1]
    \/ \A i \in 1..Len(args) : args[i][1] > win[3]
    \/ \A i \in 1..Len(args) : args[i][2] < win[2]
    \/ \A i \in 1..Len(args) : args[i][2] > win[4]

\* C8: a polygon entirely outside the window is clipped to the empty list.
C8_OutsideClipsToEmpty ==
    (pc = "poly_done" /\ PolyBeyondOneBoundary) => ret = <<>>

\* ---------------------------------------------------------- filled_polygon

\* int(x) of a float: truncation towards zero.
RTrunc(r) == IF r[1] >= 0 THEN r[1] \div r[2] ELSE -((-r[1]) \div r[2])

\* list.sort() of a list of floats (insertion into the sorted tail).
RECURSIVE SortInsert(_, _)
SortInsert(x, s) ==
    IF s = <<>> THEN <<x>>
    ELSE IF RLe(x, Head(s)) THEN <<x>> \o s
    ELSE <<Head(s)>> \o SortInsert(x, Tail(s))

RECURSIVE Sorted(_)
Sorted(s) == IF s = <<>> THEN <<>> ELSE SortInsert(Head(s), Sorted(Tail(s)))

RECURSIVE MinOf(_)
MinOf(s) == IF Len(s) = 1 THEN s[1] ELSE Min(s[1], MinOf(Tail(s)))
RECURSIVE MaxOf(_)
MaxOf(s) == IF Len(s) = 1 THEN s[1] ELSE Max(s[1], MaxOf(Tail(s)))

VertexYs(vertices) == [i \in 1..Len(vertices) |-> vertices[i][2]]

\* A plausible slip: the crossing rule closed at both ends,
\* min(y1, y2) <= y <= max(y1, y2).
EdgeCrossingClosed(vertices, i, y) ==
    LET x1 == vertices[i][1]
        y1 == vertices[i][2]
        x2 == vertices[(i % Len(vertices)) + 1][1]
        y2 == vertices[(i % Len(vertices)) + 1][2]
    IN  IF y1 = y2 THEN <<>>
        ELSE IF Min(y1, y2) <= y /\ y <= Max(y1, y2)
        THEN <<RAdd(RInt(x1), RDiv(RInt((y - y1) * (x2 - x1)), RInt(y2 - y1)))>>
        ELSE <<>>

\* Lines 567-576: what edge i contributes to the intersections of scanline y.
EdgeCrossing(vertices, i, y) ==
    LET x1 == vertices[i][1]
        y1 == vertices[i][2]
        x2 == vertices[(i % Len(vertices)) + 1][1]
        y2 == vertices[(i % Len(vertices)) + 1][2]
    IN  IF y1 = y2 THEN <<>>
        ELSE IF Min(y1, y2) <= y /\ y < Max(y1, y2)
        THEN <<RAdd(RInt(x1), RDiv(RInt((y - y1) * (x2 - x1)), RInt(y2 - y1)))>>
        ELSE <<>>

RECURSIVE CrossingsFrom(_, _, _)
CrossingsFrom(vertices, i, y) ==
    IF i > Len(vertices) THEN <<>>
    ELSE EdgeCrossing(vertices, i, y) \o CrossingsFrom(vertices, i + 1, y)

\* The sorted intersections of scanline y.
Intersections(vertices, y) == Sorted(CrossingsFrom(vertices, 1, y))

\* for x in range(x_start, x_end + 1): points.append((x, y))
Span(x_start, x_end, y) ==
    IF x_end < x_start THEN <<>>
    ELSE [j \in 1..(x_end - x_start + 1) |-> <<x_start + j - 1, y>>]

\* Lines 580-584: the spans of the pairs (i, i+1), i = 0, 2, 4, ... below
\* len(intersections) - 1.
RECURSIVE SpansFrom(_, _, _)
SpansFrom(xs, i, y) ==
    IF i + 1 > Len(xs) THEN <<>>
    ELSE Span(RTrunc(xs[i]), RTrunc(xs[i + 1]), y) \o SpansFrom(xs, i + 2, y)

\* if len(vertices) < 3: return []  -- else the locals before the scanline loop.
FillInit(vertices) ==
    [y |-> MinOf(VertexYs(vertices)), max_y |-> MaxOf(VertexYs(vertices)),
     points |-> <<>>, odd |-> FALSE]

FillMore(l) == l.y <= l.max_y

\* One iteration of the scanline loop; `odd` records that a scanline had an
\* odd number of intersections.
FillScan(vertices, l) ==
    LET xs == Intersections(vertices, l.y)
    IN  [l EXCEPT !.points = @ \o SpansFrom(xs, 1, l.y),
                  !.odd = @ \/ (Len(xs) % 2 = 1),
                  !.y = @ + 1]

RECURSIVE FillRun(_, _)
FillRun(vertices, l) == IF FillMore(l) THEN FillRun(vertices, FillScan(vertices, l)) ELSE l

\* A plausible slip: the guard lets two vertices through.
FillTooFewBelow2(vertices) == Len(vertices) < 2

\* if len(vertices) < 3: return []
FillTooFew(vertices) == Len(vertices) < 3

\* The whole function, as a value.
filled_polygon(vertices) ==
    IF FillTooFew(vertices) THEN <<>> ELSE FillRun(vertices, FillInit(vertices)).points

\* Polygon vertices are drawn from the grid (-1..MaxFill) x (-1..MaxFill).
MaxFill == 1

FillCoord == (-1)..MaxFill
FillPoint == FillCoord \X FillCoord
FillPolygons ==
    {<<>>}
    \cup {<<a>> : a \in FillPoint}
    \cup {<<a, b>> : a \in FillPoint, b \in FillPoint}
    \cup {<<a, b, c>> : a \in FillPoint, b \in FillPoint, c \in FillPoint}
    \cup {<<a, b, c, d>> : a \in FillPoint, b \in FillPoint, c \in FillPoint, d \in FillPoint}

\* The square the specification fills.
FillExample == Rect(0, 0, 10, 10)

FillPolyCall ==
    /\ pc = "fillpoly_call"
    /\ IF FillTooFew(args)
       THEN pc' = "fillpoly_done" /\ ret' = <<>> /\ loc' = loc
       ELSE pc' = "fillpoly_loop" /\ ret' = ret /\ loc' = FillInit(args)
    /\ UNCHANGED <<win, args>>

FillPolyStep ==
    /\ pc = "fillpoly_loop"
    /\ FillMore(loc)
    /\ loc' = FillScan(args, loc)
    /\ UNCHANGED <<win, args, pc, ret>>

FillPolyReturn ==
    /\ pc = "fillpoly_loop"
    /\ ~FillMore(loc)
    /\ ret' = loc.points
    /\ pc' = "fillpoly_done"
    /\ UNCHANGED <<win, args, loc>>

\* ------------------------------------------- filled_circle, filled_ellipse

\* A plausible slip: the span without its right end.
draw_horizontal_line_open(x1, x2, y) == Span(Min(x1, x2), Max(x1, x2) - 1, y)

\* draw_horizontal_line(x1, x2, y): the points appended.
draw_horizontal_line(x1, x2, y) == Span(Min(x1, x2), Max(x1, x2), y)

\* list(set(points)): every point once.  Python leaves the order of a set
\* unspecified; the model keeps the order of first appearance (computed by
\* halves).
RECURSIVE Dedup(_)
Dedup(points) ==
    IF Len(points) <= 1 THEN points
    ELSE LET half == Len(points) \div 2
             front == Dedup(SubSeq(points, 1, half))
             back == Dedup(SubSeq(points, half + 1, Len(points)))
             seen == PointSet(front)
         IN  front \o SelectSeq(back, LAMBDA q : q \notin seen)

\* Lines 100-102: the locals of filled_circle before the loop.
CircleInit(r) == [x |-> 0, y |-> r, p |-> 1 - r, points |-> <<>>]

\* while x <= y
FillCircleMore(l) == l.x <= l.y

\* A plausible slip: the else branch forgets y -= 1.
CircleAdvanceNoDec(l) ==
    IF l.p < 0
    THEN [l EXCEPT !.x = @ + 1, !.p = @ + 2 * (l.x + 1) + 1]
    ELSE [l EXCEPT !.x = @ + 1, !.p = @ + 2 * ((l.x + 1) - l.y) + 1]

\* The decision recurrence shared by the two circle rasterizers: x += 1, then
\* p and y.
CircleAdvance(l) ==
    IF l.p < 0
    THEN [l EXCEPT !.x = @ + 1, !.p = @ + 2 * (l.x + 1) + 1]
    ELSE [l EXCEPT !.x = @ + 1, !.y = @ - 1, !.p = @ + 2 * ((l.x + 1) - (l.y - 1)) + 1]

\* Lines 105-115: one iteration of the loop of filled_circle.
FillCircleBody(xc, yc, l) ==
    CircleAdvance(
        [l EXCEPT !.points = @ \o draw_horizontal_line(xc - l.x, xc + l.x, yc + l.y)
                               \o draw_horizontal_line(xc - l.x, xc + l.x, yc - l.y)
                               \o draw_horizontal_line(xc - l.y, xc + l.y, yc + l.x)
                               \o draw_horizontal_line(xc - l.y, xc + l.y, yc - l.x)])

RECURSIVE FillCircleRun(_, _, _)
FillCircleRun(xc, yc, l) ==
    IF FillCircleMore(l) THEN FillCircleRun(xc, yc, FillCircleBody(xc, yc, l)) ELSE l

\* The whole function, as a value.
filled_circle(xc, yc, r) == Dedup(FillCircleRun(xc, yc, CircleInit(r)).points)

\* Lines 191-202: the locals of filled_ellipse before region 1.  The decision
\* parameters p1 and p2 are multiples of 1/4 (from 0.25 * rx2 and (x + 0.5)**2),
\* which floats hold exactly; the model keeps 4*p1 and 4*p2 in p1_4 and p2_4.
EllipseInit(rx, ry) ==
    [rx2 |-> rx * rx, ry2 |-> ry * ry,
     x |-> 0, y |-> ry, px |-> 0, py |-> 2 * rx * rx * ry,
     p1_4 |-> 4 * ry * ry - 4 * rx * rx * ry + rx * rx,
     p2_4 |-> 0, region |-> 1, points |-> <<>>]

\* while px < py
EllipseRegion1More(l) == l.px < l.py

\* The region 1 recurrence: x += 1, px += two_ry2, then p1 and y.
EllipseAdvance1(l) ==
    LET px == l.px + 2 * l.ry2
    IN  IF l.p1_4 < 0
        THEN [l EXCEPT !.x = @ + 1, !.px = px, !.p1_4 = @ + 4 * (l.ry2 + px)]
        ELSE [l EXCEPT !.x = @ + 1, !.px = px, !.y = @ - 1,
                       !.py = @ - 2 * l.rx2,
                       !.p1_4 = @ + 4 * (l.ry2 + px - (l.py - 2 * l.rx2))]

\* A plausible slip: the term ry2 * (x + 0.5) ** 2 is left out of p2.
EllipseEnter2NoX(l) ==
    [l EXCEPT !.region = 2,
              !.p2_4 = 4 * l.rx2 * (l.y - 1) * (l.y - 1) - 4 * l.rx2 * l.ry2]

\* p2 = ry2 * (x + 0.5) ** 2 + rx2 * (y - 1) ** 2 - rx2 * ry2, on leaving
\* region 1.
EllipseEnter2(l) ==
    [l EXCEPT !.region = 2,
              !.p2_4 = l.ry2 * (2 * l.x + 1) * (2 * l.x + 1)
                       + 4 * l.rx2 * (l.y - 1) * (l.y - 1)
                       - 4 * l.rx2 * l.ry2]

\* while y >= 0
FillEllipseRegion2More(l) == l.y >= 0

\* The region 2 recurrence: y -= 1, py -= two_rx2, then p2 and x.
EllipseAdvance2(l) ==
    LET py == l.py - 2 * l.rx2
    IN  IF l.p2_4 > 0
        THEN [l EXCEPT !.y = @ - 1, !.py = py, !.p2_4 = @ + 4 * (l.rx2 - py)]
        ELSE [l EXCEPT !.y = @ - 1, !.py = py, !.x = @ + 1,
                       !.px = @ + 2 * l.ry2,
                       !.p2_4 = @ + 4 * (l.rx2 - py + (l.px + 2 * l.ry2))]

\* The two spans an iteration of filled_ellipse draws, in either region.
EllipseSpans(xc, yc, l) ==
    [l EXCEPT !.points = @ \o draw_horizontal_line(xc - l.x, xc + l.x, yc + l.y)
                           \o draw_horizontal_line(xc - l.x, xc + l.x, yc - l.y)]

\* One iteration of filled_ellipse, or the step from region 1 to region 2.
FillEllipseDone(l) == l.region = 2 /\ ~FillEllipseRegion2More(l)
FillEllipseBody(xc, yc, l) ==
    IF l.region = 1
    THEN IF EllipseRegion1More(l)
         THEN EllipseAdvance1(EllipseSpans(xc, yc, l))
         ELSE EllipseEnter2(l)
    ELSE EllipseAdvance2(EllipseSpans(xc, yc, l))

RECURSIVE FillEllipseRun(_, _, _)
FillEllipseRun(xc, yc, l) ==
    IF FillEllipseDone(l) THEN l ELSE FillEllipseRun(xc, yc, FillEllipseBody(xc, yc, l))

\* The whole function, as a value.
filled_ellipse(xc, yc, rx, ry) == Dedup(FillEllipseRun(xc, yc, EllipseInit(rx, ry)).points)

\* Radii and semi-axes are drawn from -1..MaxRadius, centres from (-1..1) x (-1..1).
MaxRadius == 4

Centre == (-1)..1
Radius == (-1)..MaxRadius
CircleArgs == [xc : Centre, yc : Centre, r : Radius]
EllipseArgs == [xc : Centre, yc : Centre, rx : Radius, ry : Radius]

\* The circle the specification fills.
CircleExample == [xc |-> 50, yc |-> 50, r |-> 10]

FillCircleCall ==
    /\ pc = "fillcircle_call"
    /\ loc' = CircleInit(args.r)
    /\ pc' = "fillcircle_loop"
    /\ UNCHANGED <<win, args, ret>>

FillCircleStep ==
    /\ pc = "fillcircle_loop"
    /\ FillCircleMore(loc)
    /\ loc' = FillCircleBody(args.xc, args.yc, loc)
    /\ UNCHANGED <<win, args, pc, ret>>

FillCircleReturn ==
    /\ pc = "fillcircle_loop"
    /\ ~FillCircleMore(loc)
    /\ ret' = Dedup(loc.points)
    /\ pc' = "fillcircle_done"
    /\ UNCHANGED <<win, args, loc>>

FillEllipseCall ==
    /\ pc = "fillellipse_call"
    /\ loc' = EllipseInit(args.rx, args.ry)
    /\ pc' = "fillellipse_loop"
    /\ UNCHANGED <<win, args, ret>>

FillEllipseStep ==
    /\ pc = "fillellipse_loop"
    /\ ~FillEllipseDone(loc)
    /\ loc' = FillEllipseBody(args.xc, args.yc, loc)
    /\ UNCHANGED <<win, args, pc, ret>>

FillEllipseReturn ==
    /\ pc = "fillellipse_loop"
    /\ FillEllipseDone(loc)
    /\ ret' = Dedup(loc.points)
    /\ pc' = "fillellipse_done"
    /\ UNCHANGED <<win, args, loc>>

\* The filled rasterizers: a call of filled_polygon, filled_circle or
\* filled_ellipse.
InitFill ==
    /\ win = NoWin
    /\ \/ pc = "fillpoly_call" /\ args \in FillPolygons \cup {FillExample}
       \/ pc = "fillcircle_call" /\ args \in CircleArgs \cup {CircleExample}
       \/ pc = "fillellipse_call" /\ args \in EllipseArgs
    /\ loc = NoLoc
    /\ ret = NoRet

NextFill ==
    \/ FillPolyCall \/ FillPolyStep \/ FillPolyReturn
    \/ FillCircleCall \/ FillCircleStep \/ FillCircleReturn
    \/ FillEllipseCall \/ FillEllipseStep \/ FillEllipseReturn

SpecFill == InitFill /\ [][NextFill]_vars

\* --- claims about the filled rasterizers

Box(x0, y0, x1, y1) == (x0..x1) \X (y0..y1)

\* The argument is the rectangle (x0,y0),(x1,y0),(x1,y1),(x0,y1), x0 < x1 and
\* y0 < y1.
FillArgIsRect ==
    /\ pc \in {"fillpoly_call", "fillpoly_loop", "fillpoly_done"}
    /\ Len(args) = 4
    /\ args[1][1] < args[3][1]
    /\ args[1][2] < args[3][2]
    /\ args = Rect(args[1][1], args[1][2], args[3][1], args[3][2])

\* C9: filled_polygon of the rectangle (x0,y0),(x1,y0),(x1,y1),(x0,y1) returns
\* exactly the points {x0..x1} x {y0..y1}; the square (0,0),(10,0),(10,10),
\* (0,10) yields the 121 points {0..10} x {0..10}.
C9_RectFillsBox ==
    (pc = "fillpoly_done" /\ FillArgIsRect) =>
        /\ PointSet(ret) = Box(args[1][1], args[1][2], args[3][1], args[3][2])
        /\ (args = FillExample => Cardinality(PointSet(ret)) = 121)

\* C10: no filled rasterizer returns a coordinate twice.
C10_FilledNoDuplicates ==
    pc \in {"fillpoly_done", "fillcircle_done", "fillellipse_done"} =>
        Len(ret) = Cardinality(PointSet(ret))

\* ----------------------------------------- midpoint_circle, midpoint_ellipse

\* plot_circle_points(xc, yc, x, y): the 8 symmetric points appended.
plot_circle_points(xc, yc, x, y) ==
    << <<xc + x, yc + y>>, <<xc - x, yc + y>>,
       <<xc + x, yc - y>>, <<xc - x, yc - y>>,
       <<xc + y, yc + x>>, <<xc - y, yc + x>>,
       <<xc + y, yc - x>>, <<xc - y, yc - x>> >>

\* Lines 72-76: the locals of midpoint_circle before the loop, the first 8
\* points plotted.
MidCircleInit(xc, yc, r) ==
    [CircleInit(r) EXCEPT !.points = plot_circle_points(xc, yc, 0, r)]

\* while x < y
MidCircleMore(l) == l.x < l.y

\* Lines 79-85: one iteration of the loop of midpoint_circle (the recurrence is
\* the one of filled_circle, then the plot).
MidCircleBody(xc, yc, l) ==
    LET a == CircleAdvance(l)
    IN  [a EXCEPT !.points = @ \o plot_circle_points(xc, yc, a.x, a.y)]

RECURSIVE MidCircleRun(_, _, _)
MidCircleRun(xc, yc, l) ==
    IF MidCircleMore(l) THEN MidCircleRun(xc, yc, MidCircleBody(xc, yc, l)) ELSE l

\* The whole function, as a value.
midpoint_circle(xc, yc, r) == MidCircleRun(xc, yc, MidCircleInit(xc, yc, r)).points

\* A plausible slip: the mirror image across the vertical axis is left out of
\* one quadrant.
plot_ellipse_points_3(xc, yc, x, y) ==
    << <<xc + x, yc + y>>, <<xc - x, yc + y>>,
       <<xc + x, yc - y>>, <<xc + x, yc - y>> >>

\* A plausible slip: the offsets x and y exchanged.
plot_ellipse_points_swapped(xc, yc, x, y) ==
    << <<xc + y, yc + x>>, <<xc - y, yc + x>>,
       <<xc + y, yc - x>>, <<xc - y, yc - x>> >>

\* plot_ellipse_points(xc, yc, x, y): the 4 symmetric points appended.
plot_ellipse_points(xc, yc, x, y) ==
    << <<xc + x, yc + y>>, <<xc - x, yc + y>>,
       <<xc + x, yc - y>>, <<xc - x, yc - y>> >>

\* Lines 139-153: the locals of midpoint_ellipse before region 1, the first 4
\* points plotted.
MidEllipseInit(xc, yc, rx, ry) ==
    [EllipseInit(rx, ry) EXCEPT !.points = plot_ellipse_points(xc, yc, 0, ry)]

\* while y > 0
MidEllipseRegion2More(l) == l.y > 0

MidEllipsePlot(xc, yc, l) ==
    [l EXCEPT !.points = @ \o plot_ellipse_points(xc, yc, l.x, l.y)]

\* One iteration of midpoint_ellipse, or the step from region 1 to region 2.
MidEllipseDone(l) == l.region = 2 /\ ~MidEllipseRegion2More(l)
MidEllipseBody(xc, yc, l) ==
    IF l.region = 1
    THEN IF EllipseRegion1More(l)
         THEN MidEllipsePlot(xc, yc, EllipseAdvance1(l))
         ELSE EllipseEnter2(l)
    ELSE MidEllipsePlot(xc, yc, EllipseAdvance2(l))

RECURSIVE MidEllipseRun(_, _, _)
MidEllipseRun(xc, yc, l) ==
    IF MidEllipseDone(l) THEN l ELSE MidEllipseRun(xc, yc, MidEllipseBody(xc, yc, l))

\* The whole function, as a value.
midpoint_ellipse(xc, yc, rx, ry) ==
    MidEllipseRun(xc, yc, MidEllipseInit(xc, yc, rx, ry)).points

MidCircleCall ==
    /\ pc = "midcircle_call"
    /\ loc' = MidCircleInit(args.xc, args.yc, args.r)
    /\ pc' = "midcircle_loop"
    /\ UNCHANGED <<win, args, ret>>

MidCircleStep ==
    /\ pc = "midcircle_loop"
    /\ MidCircleMore(loc)
    /\ loc' = MidCircleBody(args.xc, args.yc, loc)
    /\ UNCHANGED <<win, args, pc, ret>>

MidCircleReturn ==
    /\ pc = "midcircle_loop"
    /\ ~MidCircleMore(loc)
    /\ ret' = loc.points
    /\ pc' = "midcircle_done"
    /\ UNCHANGED <<win, args, loc>>

MidEllipseCall ==
    /\ pc = "midellipse_call"
    /\ loc' = MidEllipseInit(args.xc, args.yc, args.rx, args.ry)
    /\ pc' = "midellipse_loop"
    /\ UNCHANGED <<win, args, ret>>

MidEllipseStep ==
    /\ pc = "midellipse_loop"
    /\ ~MidEllipseDone(loc)
    /\ loc' = MidEllipseBody(args.xc, args.yc, loc)
    /\ UNCHANGED <<win, args, pc, ret>>

MidEllipseReturn ==
    /\ pc = "midellipse_loop"
    /\ MidEllipseDone(loc)
    /\ ret' = loc.points
    /\ pc' = "midellipse_done"
    /\ UNCHANGED <<win, args, loc>>

\* The circle and ellipse rasterizers, stroke and filled: a call of
\* midpoint_circle, filled_circle, midpoint_ellipse or filled_ellipse.
InitCurve ==
    /\ win = NoWin
    /\ \/ pc \in {"midcircle_call", "fillcircle_call"}
          /\ args \in CircleArgs \cup {CircleExample}
       \/ pc \in {"midellipse_call", "fillellipse_call"}
          /\ args \in EllipseArgs
    /\ loc = NoLoc
    /\ ret = NoRet

NextCurve ==
    \/ MidCircleCall \/ MidCircleStep \/ MidCircleReturn
    \/ FillCircleCall \/ FillCircleStep \/ FillCircleReturn
    \/ MidEllipseCall \/ MidEllipseStep \/ MidEllipseReturn
    \/ FillEllipseCall \/ FillEllipseStep \/ FillEllipseReturn

SpecCurve == InitCurve /\ [][NextCurve]_vars

\* A call runs on its own thread of control: a loop iteration that can be taken
\* is taken.
SpecCurveFair == SpecCurve /\ WF_vars(NextCurve)

\* --- claims about the circle and ellipse rasterizers

CircleDone == pc \in {"midcircle_done", "fillcircle_done"}

\* C11: midpoint_circle and filled_circle return just the centre for radius 0
\* and an empty collection for a negative radius (and return at all).
C11_DegenerateRadius ==
    CircleDone =>
        /\ args.r = 0 => PointSet(ret) = {<<args.xc, args.yc>>}
        /\ args.r < 0 => ret = <<>>

\* Squared distance of point q from the centre of the call.
Dist2(q) == (q[1] - args.xc) * (q[1] - args.xc) + (q[2] - args.yc) * (q[2] - args.yc)

\* C12: every point filled_circle(xc, yc, r) returns, r >= 0, lies within
\* r + 0.71 of the centre: 10000 * ((x-xc)^2 + (y-yc)^2) <= (100*r + 71)^2.
C12_FilledWithinRadius ==
    (pc = "fillcircle_done" /\ args.r >= 0) =>
        \A i \in 1..Len(ret) :
            10000 * Dist2(ret[i]) <= (100 * args.r + 71) * (100 * args.r + 71)

\* A filled circle is returned that holds a pixel farther than r from the
\* centre, so the slack of the bound is used.
C12_Witness ==
    /\ pc = "fillcircle_done"
    /\ args.r > 0
    /\ \E i \in 1..Len(ret) : Dist2(ret[i]) > args.r * args.r

\* C13: the points midpoint_ellipse returns are invariant under reflection
\* across both axes through the centre.
C13_EllipseSymmetric ==
    pc = "midellipse_done" =>
        \A q \in PointSet(ret) :
            /\ <<2 * args.xc - q[1], q[2]>> \in PointSet(ret)
            /\ <<q[1], 2 * args.yc - q[2]>> \in PointSet(ret)

\* An ellipse with two positive semi-axes is returned, with a point on
\* neither axis.
C13_Witness ==
    /\ pc = "midellipse_done"
    /\ args.rx > 0 /\ args.ry > 0 /\ args.rx # args.ry
    /\ \E q \in PointSet(ret) : q[1] # args.xc /\ q[2] # args.yc

EllipsePc(labels) == pc \in labels
ZeroAxis ==
    \/ args.rx = 0 /\ args.ry >= 0
    \/ args.ry = 0 /\ args.rx >= 0
EllipseDone == EllipsePc({"midellipse_done", "fillellipse_done"})

\* The returned pixels hold the centre and lie on one vertical or one
\* horizontal line through it.
OnAxisThroughCentre ==
    /\ <<args.xc, args.yc>> \in PointSet(ret)
    /\ \/ \A q \in PointSet(ret) : q[1] = args.xc
       \/ \A q \in PointSet(ret) : q[2] = args.yc

\* C14: with rx = 0 or ry = 0 (the other semi-axis any non-negative integer)
\* midpoint_ellipse and filled_ellipse return, and return only pixels on a
\* single axis-aligned line through the centre, or the centre alone.
C14_ZeroAxisEllipse ==
    /\ (EllipsePc({"midellipse_call", "fillellipse_call"}) /\ ZeroAxis) ~> EllipseDone
    /\ []((EllipseDone /\ ZeroAxis) => OnAxisThroughCentre)

\* A zero-width ellipse returned as a vertical line of more than one pixel.
C14_Witness ==
    /\ EllipseDone
    /\ args.rx = 0 /\ args.ry > 1
    /\ Cardinality(PointSet(ret)) = 2 * args.ry + 1

\* C15: filled_polygon returns an empty list for 0, 1 or 2 vertices.
C15_FewVerticesFillEmpty ==
    (pc = "fillpoly_done" /\ Len(args) < 3) => ret = <<>>

\* The call on two distinct vertices, not on one scanline, has returned.
C15_Witness ==
    /\ pc = "fillpoly_done"
    /\ Len(args) = 2
    /\ args[1][2] # args[2][2]

\* ---------------------------------------------------------------- Transform2D

\* The matrices are arrays of binary floating-point numbers (dtype=float). A
\* float is kept as the fraction it denotes, and every operation rounds its
\* exact result to the nearest float of Precision significant bits, ties to
\* even (IEEE 754 double is the case of 53 bits; the exponent is unbounded
\* here).
Precision == 8

RECURSIVE Pow2(_)
Pow2(k) == IF k = 0 THEN 1 ELSE 2 * Pow2(k - 1)

\* a / d brought into [2^(Precision-1), 2^Precision) by a power of two:
\* a0 / d0 = (a / d) * 2^e.
RECURSIVE FlNormalize(_, _, _)
FlNormalize(a, d, e) ==
    IF a >= d * Pow2(Precision) THEN FlNormalize(a, 2 * d, e + 1)
    ELSE IF a < d * Pow2(Precision - 1) THEN FlNormalize(2 * a, d, e - 1)
    ELSE <<a, d, e>>

\* Round to nearest, ties to even: n is the normalized magnitude.
FlNearest(negative, n) ==
    LET q == n[1] \div n[2]
        rem == n[1] % n[2]
        m == IF 2 * rem > n[2] \/ (2 * rem = n[2] /\ q % 2 = 1) THEN q + 1 ELSE q
        sm == IF negative THEN -m ELSE m
    IN  IF n[3] >= 0 THEN <<sm * Pow2(n[3]), 1>> ELSE Rat(sm, Pow2(-n[3]))

\* The float nearest the fraction r. (Below, CHOOSE over a one-element set
\* names the value of an expression, so that it is computed once.)
Fl(r) ==
    CHOOSE f \in {IF v[1] = 0 THEN v
                  ELSE CHOOSE g \in {FlNearest(v[1] < 0, n) :
                                        n \in {FlNormalize(Abs(v[1]), v[2], 0)}} : TRUE :
                  v \in {r}} : TRUE

\* Float addition, multiplication and division (x + 0, x * 0, x * 1 and x / 1
\* are exact, and are not rounded again).
FAdd(a, b) ==
    CHOOSE f \in {IF x[1] = 0 THEN y ELSE IF y[1] = 0 THEN x ELSE Fl(RAdd(x, y)) :
                  x \in {a}, y \in {b}} : TRUE
FMul(a, b) ==
    CHOOSE f \in {IF x[1] = 0 \/ y[1] = 0 THEN RZero
                  ELSE IF x = <<1, 1>> THEN y
                  ELSE IF y = <<1, 1>> THEN x ELSE Fl(RMul(x, y)) :
                  x \in {a}, y \in {b}} : TRUE
FDiv(a, b) ==
    CHOOSE f \in {IF y = <<1, 1>> THEN x ELSE Fl(RDiv(x, y)) :
                  x \in {a}, y \in {b}} : TRUE
FNeg(a) == RSub(RZero, a)

\* float(v) for a number given exactly.
Float(r) == Fl(r)
F0 == RInt(0)
F1 == RInt(1)

\* matrix @ matrix and matrix @ vector: each entry the rounded sum, left to
\* right, of the rounded products.
Dot3(a1, b1, a2, b2, a3, b3) == FAdd(FAdd(FMul(a1, b1), FMul(a2, b2)), FMul(a3, b3))
MatRow(r, B) ==
    << Dot3(r[1], B[1][1], r[2], B[2][1], r[3], B[3][1]),
       Dot3(r[1], B[1][2], r[2], B[2][2], r[3], B[3][2]),
       Dot3(r[1], B[1][3], r[2], B[2][3], r[3], B[3][3]) >>
MatMul(A, B) ==
    CHOOSE m \in {<<MatRow(a[1], b), MatRow(a[2], b), MatRow(a[3], b)>> :
                  a \in {A}, b \in {B}} : TRUE
MatVec(A, v) ==
    CHOOSE m \in {<<Dot3(a[1][1], u[1], a[1][2], u[2], a[1][3], u[3]),
                    Dot3(a[2][1], u[1], a[2][2], u[2], a[2][3], u[3]),
                    Dot3(a[3][1], u[1], a[3][2], u[2], a[3][3], u[3])>> :
                  a \in {A}, u \in {v}} : TRUE

\* np.cos(np.radians(a)) and np.sin(np.radians(a)): the float nearest the
\* cosine and the sine, for the angles the model uses (degrees).
CosTable(a) ==
    CASE a = 0 -> <<1, 1>>
      [] a = 15 -> <<96593, 100000>>
      [] a = 30 -> <<86603, 100000>>
      [] a = 45 -> <<70711, 100000>>
SinTable(a) ==
    CASE a = 0 -> <<0, 1>>
      [] a = 15 -> <<25882, 100000>>
      [] a = 30 -> <<1, 2>>
      [] a = 45 -> <<70711, 100000>>
Cos(angle_degrees) == Fl(CosTable(Abs(angle_degrees)))
Sin(angle_degrees) ==
    IF angle_degrees < 0 THEN FNeg(Fl(SinTable(-angle_degrees)))
    ELSE Fl(SinTable(angle_degrees))

translation_matrix(tx, ty) ==
    << <<F1, F0, Float(tx)>>, <<F0, F1, Float(ty)>>, <<F0, F0, F1>> >>

\* A plausible slip: the first factor written into the homogeneous entry too.
scaling_matrix_h(sx, sy) ==
    << <<Float(sx), F0, F0>>, <<F0, Float(sy), F0>>, <<F0, F0, Float(sx)>> >>

scaling_matrix(sx, sy) ==
    << <<Float(sx), F0, F0>>, <<F0, Float(sy), F0>>, <<F0, F0, F1>> >>

rotation_matrix(angle_degrees) ==
    LET cos_t == Cos(angle_degrees)
        sin_t == Sin(angle_degrees)
    IN  << <<cos_t, FNeg(sin_t), F0>>, <<sin_t, cos_t, F0>>, <<F0, F0, F1>> >>

\* A plausible slip: the two translations in the order the docstring reads,
\* T(-px,-py) * R * T(px,py).
rotation_about_point_swapped(angle_degrees, px, py) ==
    LET T1 == translation_matrix(FNeg(px), FNeg(py))
        R == rotation_matrix(angle_degrees)
        T2 == translation_matrix(px, py)
    IN  MatMul(MatMul(T1, R), T2)

\* T2 @ R @ T1
rotation_about_point(angle_degrees, px, py) ==
    LET T1 == translation_matrix(FNeg(px), FNeg(py))
        R == rotation_matrix(angle_degrees)
        T2 == translation_matrix(px, py)
    IN  MatMul(MatMul(T2, R), T1)

\* T2 @ S @ T1
scaling_about_point(sx, sy, px, py) ==
    LET T1 == translation_matrix(FNeg(px), FNeg(py))
        S == scaling_matrix(sx, sy)
        T2 == translation_matrix(px, py)
    IN  MatMul(MatMul(T2, S), T1)

shear_matrix(shx, shy) ==
    << <<F1, Float(shx), F0>>, <<Float(shy), F1, F0>>, <<F0, F0, F1>> >>

reflect_x == scaling_matrix(RInt(1), RInt(-1))
reflect_y == scaling_matrix(RInt(-1), RInt(1))
reflect_origin == scaling_matrix(RInt(-1), RInt(-1))

\* result = matrix @ [x, y, 1]
Homogeneous(point, matrix) == MatVec(matrix, <<Float(point[1]), Float(point[2]), F1>>)

\* A plausible slip: result[0] returned twice.
transform_point_xx(point, matrix) ==
    CHOOSE p \in {<<FDiv(result[1], result[3]), FDiv(result[1], result[3])>> :
                  result \in {Homogeneous(point, matrix)}} : TRUE

\* (result[0] / result[2], result[1] / result[2])
transform_point(point, matrix) ==
    CHOOSE p \in {<<FDiv(result[1], result[3]), FDiv(result[2], result[3])>> :
                  result \in {Homogeneous(point, matrix)}} : TRUE

\* A plausible slip: the factors in the order they are applied, S @ R @ T.
get_transform_matrix_srt(self) ==
    LET T == translation_matrix(self.x, self.y)
        R == rotation_matrix(self.rotation)
        S == scaling_matrix(self.scale, self.scale)
    IN  MatMul(MatMul(S, R), T)

\* GameObject.get_transform_matrix: T @ R @ S
get_transform_matrix(self) ==
    LET T == translation_matrix(self.x, self.y)
        R == rotation_matrix(self.rotation)
        S == scaling_matrix(self.scale, self.scale)
    IN  MatMul(MatMul(T, R), S)

\* A product holds at most MaxOps matrices built by Transform2D.
MaxOps == 2

\* Parameters: points and pivots with small integer coordinates, the
\* translations of the examples, a few scale factors, shears and angles.
XfPoint == {-2, 0, 1} \X {-2, 0, 1}
Pivots == {-2, 1} \X {-2, 1}
Offsets == {<<0, 0>>, <<1, 2>>, <<-1, -2>>, <<-2, 1>>, <<2, -1>>, <<5, 5>>, <<-5, -5>>}
Scales == {<<1, 2>>, <<2, 1>>, <<3, 1>>}
Shears == {<<0, 1>>, <<1, 1>>, <<1, 2>>}
Angles == {-15, 0, 15, 30, 45}
ScalePairs == {<<<<2, 1>>, <<2, 1>>>>, <<<<1, 2>>, <<3, 1>>>>, <<<<3, 1>>, <<1, 2>>>>}
GameObjects ==
    {[x |-> at[1], y |-> at[2], rotation |-> r, scale |-> sc] :
        at \in {<<0, 0>>, <<-2, 1>>, <<1, 1>>}, r \in {-15, 0, 15},
        sc \in {<<1, 2>>, <<1, 1>>, <<2, 1>>}}

AsFloat(point) == <<Float(RInt(point[1])), Float(RInt(point[2]))>>

\* What a caller asked Transform2D for (kind, the parameters a and the pivot
\* p, all floats), and the matrix it got.
OpMatrix(op) ==
    CASE op.kind = "translation" -> translation_matrix(op.a[1], op.a[2])
      [] op.kind = "scaling" -> scaling_matrix(op.a[1], op.a[2])
      [] op.kind = "rotation" -> rotation_matrix(op.a[1][1])
      [] op.kind = "shear" -> shear_matrix(op.a[1], op.a[2])
      [] op.kind = "reflect_x" -> reflect_x
      [] op.kind = "reflect_y" -> reflect_y
      [] op.kind = "reflect_origin" -> reflect_origin
      [] op.kind = "rotation_about_point" ->
             rotation_about_point(op.a[1][1], op.p[1], op.p[2])
      [] op.kind = "scaling_about_point" ->
             scaling_about_point(op.a[1], op.a[2], op.p[1], op.p[2])
      [] op.kind = "object" ->
             get_transform_matrix([x |-> op.p[1], y |-> op.p[2],
                                   rotation |-> op.a[1][1], scale |-> op.a[2]])

Op(kind, a, p) == [kind |-> kind, a |-> a, p |-> p]
RPoint(t) == <<RInt(t[1]), RInt(t[2])>>

\* The matrices a caller multiplies onto a transform it already holds.
Factors ==
    {Op("translation", RPoint(t), <<>>) : t \in {<<-1, -2>>, <<-5, -5>>}}
    \cup {Op("rotation", <<RInt(30)>>, <<>>), Op("scaling", <<<<1, 2>>, <<3, 1>>>>, <<>>),
          Op("shear", <<<<1, 1>>, <<1, 2>>>>, <<>>)}

\* A caller takes a point (args), asks Transform2D for matrices, multiplies
\* them and transforms the point.
InitXform ==
    /\ win = NoWin
    /\ pc = "xform_new"
    /\ args \in XfPoint
    /\ loc = NoLoc
    /\ ret = NoRet

\* What the caller holds after the first matrix: the matrix, what it was asked
\* for, and the point transformed by it.
FirstHeld(op) ==
    CHOOSE l \in {[m |-> M, ops |-> <<op>>, q |-> transform_point(AsFloat(args), M)] :
                  M \in {OpMatrix(op)}} : TRUE

TranslationMatrix ==
    /\ pc = "xform_new"
    /\ \E t \in Offsets : loc' = FirstHeld(Op("translation", RPoint(t), <<>>))
    /\ pc' = "xform_built"
    /\ UNCHANGED <<win, args, ret>>

ScalingMatrix ==
    /\ pc = "xform_new"
    /\ \E sx \in Scales, sy \in Scales : loc' = FirstHeld(Op("scaling", <<sx, sy>>, <<>>))
    /\ pc' = "xform_built"
    /\ UNCHANGED <<win, args, ret>>

RotationMatrix ==
    /\ pc = "xform_new"
    /\ \E a \in Angles : loc' = FirstHeld(Op("rotation", <<RInt(a)>>, <<>>))
    /\ pc' = "xform_built"
    /\ UNCHANGED <<win, args, ret>>

ShearMatrix ==
    /\ pc = "xform_new"
    /\ \E shx \in Shears, shy \in Shears : loc' = FirstHeld(Op("shear", <<shx, shy>>, <<>>))
    /\ pc' = "xform_built"
    /\ UNCHANGED <<win, args, ret>>

ReflectX ==
    /\ pc = "xform_new"
    /\ loc' = FirstHeld(Op("reflect_x", <<>>, <<>>))
    /\ pc' = "xform_built"
    /\ UNCHANGED <<win, args, ret>>

ReflectY ==
    /\ pc = "xform_new"
    /\ loc' = FirstHeld(Op("reflect_y", <<>>, <<>>))
    /\ pc' = "xform_built"
    /\ UNCHANGED <<win, args, ret>>

ReflectOrigin ==
    /\ pc = "xform_new"
    /\ loc' = FirstHeld(Op("reflect_origin", <<>>, <<>>))
    /\ pc' = "xform_built"
    /\ UNCHANGED <<win, args, ret>>

RotationAboutPoint ==
    /\ pc = "xform_new"
    /\ \E a \in Angles, p \in Pivots : loc' = FirstHeld(Op("rotation_about_point", <<RInt(a)>>, RPoint(p)))
    /\ pc' = "xform_built"
    /\ UNCHANGED <<win, args, ret>>

ScalingAboutPoint ==
    /\ pc = "xform_new"
    /\ \E sc \in ScalePairs, p \in Pivots : loc' = FirstHeld(Op("scaling_about_point", sc, RPoint(p)))
    /\ pc' = "xform_built"
    /\ UNCHANGED <<win, args, ret>>

GetTransformMatrix ==
    /\ pc = "xform_new"
    /\ \E o \in GameObjects :
          loc' = FirstHeld(Op("object", <<RInt(o.rotation), o.scale>>,
                              <<RInt(o.x), RInt(o.y)>>))
    /\ pc' = "xform_built"
    /\ UNCHANGED <<win, args, ret>>

\* The caller follows the transform it holds by one more: as a matrix,
\* B @ m; on the point, transform_point(q, B).
XformThen ==
    /\ pc = "xform_built"
    /\ Len(loc.ops) < MaxOps
    /\ \E op \in Factors :
          \E B \in {OpMatrix(op)} :
              loc' = [m |-> MatMul(B, loc.m), ops |-> Append(loc.ops, op),
                      q |-> transform_point(loc.q, B)]
    /\ UNCHANGED <<win, args, pc, ret>>

\* transform_point(args, m): the point returned, and the homogeneous
\* component it was divided by.
TransformPoint ==
    /\ pc = "xform_built"
    /\ \E result \in {Homogeneous(AsFloat(args), loc.m)} :
          ret' = [p |-> <<FDiv(result[1], result[3]), FDiv(result[2], result[3])>>,
                  w |-> result[3]]
    /\ pc' = "xform_done"
    /\ UNCHANGED <<win, args, loc>>

NextXform ==
    \/ TranslationMatrix \/ ScalingMatrix \/ RotationMatrix \/ ShearMatrix
    \/ ReflectX \/ ReflectY \/ ReflectOrigin
    \/ RotationAboutPoint \/ ScalingAboutPoint \/ GetTransformMatrix
    \/ XformThen \/ TransformPoint

SpecXform == InitXform /\ [][NextXform]_vars

\* --- claims about Transform2D

XformHeld == pc \in {"xform_built", "xform_done"}
Point == AsFloat(args)

\* The transform held is translation (tx, ty) followed by translation
\* (-tx, -ty).
IsRoundTrip ==
    /\ XformHeld
    /\ Len(loc.ops) = 2
    /\ loc.ops[1].kind = "translation" /\ loc.ops[2].kind = "translation"
    /\ loc.ops[2].a = <<FNeg(loc.ops[1].a[1]), FNeg(loc.ops[1].a[2])>>

\* C16: for integer tx, ty and an integer point p, transforming p by
\* translation_matrix(tx, ty) and then by translation_matrix(-tx, -ty), or by
\* their matrix product, returns exactly p.
C16_TranslationRoundTrip ==
    IsRoundTrip =>
        /\ loc.q = Point
        /\ pc = "xform_done" => ret.p = Point

\* translate(5,5) then translate(-5,-5) has been applied to a point other
\* than the origin, one factor at a time and as the product.
C16_Witness ==
    /\ IsRoundTrip
    /\ pc = "xform_done"
    /\ loc.ops[1].a = RPoint(<<5, 5>>)
    /\ args[1] # args[2]

RAbs(r) == <<Abs(r[1]), r[2]>>

\* Points a and b agree up to the rounding of a few float operations on
\* numbers of magnitude mag: each coordinate within 4 * mag * 2^-Precision.
Near(a, b, mag) ==
    \A i \in 1..2 : RLe(RAbs(RSub(a[i], b[i])), Rat(4 * mag, Pow2(Precision)))

\* The caller holds just one matrix, built about a pivot.
AboutPoint ==
    /\ XformHeld
    /\ Len(loc.ops) = 1
    /\ loc.ops[1].kind \in {"rotation_about_point", "scaling_about_point"}
Pivot == loc.ops[1].p

\* The point translated by minus the pivot, then rotated or scaled, then
\* translated by the pivot, one transform_point at a time.
Sandwiched ==
    LET op == loc.ops[1]
        inner == IF op.kind = "rotation_about_point"
                 THEN rotation_matrix(op.a[1][1])
                 ELSE scaling_matrix(op.a[1], op.a[2])
        p1 == transform_point(Point, translation_matrix(FNeg(Pivot[1]), FNeg(Pivot[2])))
        p2 == transform_point(p1, inner)
    IN  transform_point(p2, translation_matrix(Pivot[1], Pivot[2]))

Magnitude == 1 + Abs(args[1]) + Abs(args[2]) + Abs(Pivot[1][1]) + Abs(Pivot[2][1])

C18_LastRowAffine ==
    XformHeld =>
        /\ loc.m[3] = <<F0, F0, F1>>
        /\ pc = "xform_done" => ret.w = F1

\* A product of a rotation about a pivot and a shear has transformed a point.
C18_Witness ==
    /\ pc = "xform_done"
    /\ Len(loc.ops) = 2
    /\ loc.ops[1].kind = "rotation_about_point"
    /\ loc.ops[2].kind = "shear"
    /\ ret.w = F1

\* The caller holds just the transform of a game object.
ObjectHeld ==
    /\ XformHeld
    /\ Len(loc.ops) = 1
    /\ loc.ops[1].kind = "object"
ObjectAt == loc.ops[1].p

\* The point scaled, then rotated, then translated, one transform_point at a
\* time.
ScaledRotatedTranslated ==
    LET op == loc.ops[1]
        p1 == transform_point(Point, scaling_matrix(op.a[2], op.a[2]))
        p2 == transform_point(p1, rotation_matrix(op.a[1][1]))
    IN  transform_point(p2, translation_matrix(ObjectAt[1], ObjectAt[2]))

\* C19: GameObject.get_transform_matrix applies scale, then rotation, then
\* translation to a local-space point (up to rounding), and maps the local
\* origin (0,0) to the object's position (x,y) exactly, whatever the rotation
\* and the scale.
C19_ObjectTransformOrder ==
    ObjectHeld =>
        /\ Near(loc.q, ScaledRotatedTranslated,
                1 + 2 * (Abs(args[1]) + Abs(args[2])) + Abs(ObjectAt[1][1]) + Abs(ObjectAt[2][1]))
        /\ args = <<0, 0>> => loc.q = ObjectAt

\* The local origin of a rotated, scaled object away from the origin has been
\* transformed.
C19_Witness ==
    /\ ObjectHeld
    /\ pc = "xform_done"
    /\ args = <<0, 0>>
    /\ loc.ops[1].a[1][1] # 0
    /\ loc.ops[1].a[2] # <<1, 1>>
    /\ ObjectAt = RPoint(<<-2, 1>>)
    /\ ret.p = ObjectAt

\* ---------------------------------------- concurrent calls on the clippers

\* Two threads call clip_line and/or clip_polygon on the same clippers (the
\* renderer builds both on one window).  Shared: the window fields (win) and
\* the caller's vertex list (args.polygon).  Per thread t: the call it makes
\* (args.call[t]), its position pc[t], its locals loc.line[t] or loc.poly[t]
\* and its result ret[t].  A thread is preempted between loop iterations;
\* loc.overlapped records that one thread stepped while the other was inside
\* its loop.
Threads == {1, 2}

ConcWindows == {<<0, 0, 2, 2>>, <<0, 0, 1, 2>>}
ConcSegments ==
    {<<-1, 1, 3, 1>>, <<-2, -1, 3, 4>>, <<1, 1, 1, 1>>, <<-2, -2, -1, -1>>, <<-1, 3, 3, -1>>}
ConcPolygons ==
    {<< <<-1, -1>>, <<3, 1>>, <<1, 3>> >>, Rect(-1, -1, 1, 1), Rect(3, 3, 4, 4)}
ConcCalls ==
    {[kind |-> "line", seg |-> sg] : sg \in ConcSegments}
    \cup {[kind |-> "poly", seg |-> <<0, 0, 0, 0>>]}

InitConc ==
    /\ win \in ConcWindows
    /\ args \in [call : ConcCalls \X ConcCalls, polygon : ConcPolygons]
    /\ pc = [t \in Threads |-> IF args.call[t].kind = "line" THEN "clip_call" ELSE "poly_call"]
    /\ loc = [line |-> [t \in Threads |-> NoLoc], poly |-> [t \in Threads |-> NoLoc],
              overlapped |-> FALSE]
    /\ ret = [t \in Threads |-> NoRet]

\* A plausible slip: the working values kept on the clipper instead of in
\* locals, so that both calls use the same ones.
SetLocalShared(frames, t, v) == [u \in DOMAIN frames |-> v]

\* A local variable of a call lives in the frame of that call.
SetLocal(frames, t, v) == [frames EXCEPT ![t] = v]

Other(t) == 3 - t
Overlap(t) == loc.overlapped \/ pc[Other(t)] \in {"clip_loop", "poly_loop"}

ConcClipCall(t) ==
    /\ pc[t] = "clip_call"
    /\ loc' = [loc EXCEPT
                 !.line = SetLocal(@, t,
                     ClipInit(win, RInt(args.call[t].seg[1]), RInt(args.call[t].seg[2]),
                                   RInt(args.call[t].seg[3]), RInt(args.call[t].seg[4]))),
                 !.overlapped = Overlap(t)]
    /\ pc' = [pc EXCEPT ![t] = "clip_loop"]
    /\ UNCHANGED <<win, args, ret>>

ConcClipAccept(t) ==
    /\ pc[t] = "clip_loop"
    /\ ClipTrivialAccept(loc.line[t])
    /\ ret' = [ret EXCEPT ![t] = Accepted(loc.line[t])]
    /\ pc' = [pc EXCEPT ![t] = "clip_done"]
    /\ UNCHANGED <<win, args, loc>>

ConcClipReject(t) ==
    /\ pc[t] = "clip_loop"
    /\ ~ClipTrivialAccept(loc.line[t])
    /\ ClipTrivialReject(loc.line[t])
    /\ ret' = [ret EXCEPT ![t] = Rejected]
    /\ pc' = [pc EXCEPT ![t] = "clip_done"]
    /\ UNCHANGED <<win, args, loc>>

ConcClipReplace(t) ==
    /\ pc[t] = "clip_loop"
    /\ ~ClipTrivialAccept(loc.line[t])
    /\ ~ClipTrivialReject(loc.line[t])
    /\ loc' = [loc EXCEPT !.line = SetLocal(@, t, ClipIteration(win, loc.line[t])),
                          !.overlapped = Overlap(t)]
    /\ IF loc'.line[t].raised
       THEN pc' = [pc EXCEPT ![t] = "clip_raised"] /\ ret' = [ret EXCEPT ![t] = Raised]
       ELSE pc' = pc /\ ret' = ret
    /\ UNCHANGED <<win, args>>

ConcPolyCall(t) ==
    /\ pc[t] = "poly_call"
    /\ loc' = [loc EXCEPT !.poly = SetLocal(@, t, PolyInit(args.polygon)),
                          !.overlapped = Overlap(t)]
    /\ pc' = [pc EXCEPT ![t] = "poly_loop"]
    /\ UNCHANGED <<win, args, ret>>

ConcPolyStep(t) ==
    /\ pc[t] = "poly_loop"
    /\ PolyMore(loc.poly[t])
    /\ loc' = [loc EXCEPT !.poly = SetLocal(@, t, PolyPass(win, loc.poly[t])),
                          !.overlapped = Overlap(t)]
    /\ UNCHANGED <<win, args, pc, ret>>

ConcPolyReturn(t) ==
    /\ pc[t] = "poly_loop"
    /\ ~PolyMore(loc.poly[t])
    /\ ret' = [ret EXCEPT ![t] = loc.poly[t].output]
    /\ pc' = [pc EXCEPT ![t] = "poly_done"]
    /\ UNCHANGED <<win, args, loc>>

NextConc ==
    \E t \in Threads :
        \/ ConcClipCall(t) \/ ConcClipAccept(t) \/ ConcClipReject(t) \/ ConcClipReplace(t)
        \/ ConcPolyCall(t) \/ ConcPolyStep(t) \/ ConcPolyReturn(t)

SpecConc == InitConc /\ [][NextConc]_vars

\* --- claims about concurrent calls

\* What the call of thread t returns when it runs alone.
Alone(t) ==
    IF args.call[t].kind = "line"
    THEN clip_line(win, args.call[t].seg[1], args.call[t].seg[2],
                        args.call[t].seg[3], args.call[t].seg[4])
    ELSE clip_polygon(win, args.polygon)

ConcDone(t) == pc[t] \in {"clip_done", "clip_raised", "poly_done"}

\* C20: under any interleaving of two concurrent calls to clip_line and/or
\* clip_polygon on the same clippers, each call returns what it returns when
\* run alone, and no step changes the window fields or the caller's vertex
\* list.
C20_CallsIndependent ==
    /\ [](\A t \in Threads : ConcDone(t) => ret[t] = Alone(t))
    /\ [][win' = win /\ args' = args]_vars

\* Two calls of clip_line on different segments, each replacing an endpoint,
\* have both returned after running interleaved.
C20_Witness ==
    /\ \A t \in Threads : pc[t] = "clip_done" /\ loc.line[t].iter > 0
    /\ args.call[1] # args.call[2]
    /\ loc.overlapped

\* --- further claims about CohenSutherland.clip_line

\* The point <<x, y>> lies on the boundary of the first bit of outcode c in the
\* order TOP, BOTTOM, RIGHT, LEFT.
OnFirstBoundary(c, x, y) ==
    IF HasBit(c, TOP) THEN y = RInt(win[4])
    ELSE IF HasBit(c, BOTTOM) THEN y = RInt(win[2])
    ELSE IF HasBit(c, RIGHT) THEN x = RInt(win[3])
    ELSE x = RInt(win[1])

\* C21: a clipping iteration replaces the first endpoint if its outcode is
\* nonzero, otherwise the second; the new endpoint lies on the boundary of the
\* first bit set in that outcode in the order TOP, BOTTOM, RIGHT, LEFT (and on
\* the line of the segment), its outcode is recomputed, and the other endpoint
\* and its outcode are unchanged.
C21_ReplacementPriority ==
    [][(ClipAboutToReplace /\ pc' = "clip_loop") =>
          IF loc.code1 # 0
          THEN /\ OnFirstBoundary(loc.code1, loc'.x1, loc'.y1)
               /\ Across(loc'.x1, loc'.y1) = RZero
               /\ loc'.code1 = compute_code(win, loc'.x1, loc'.y1)
               /\ <<loc'.x2, loc'.y2, loc'.code2>> = <<loc.x2, loc.y2, loc.code2>>
          ELSE /\ OnFirstBoundary(loc.code2, loc'.x2, loc'.y2)
               /\ Across(loc'.x2, loc'.y2) = RZero
               /\ loc'.code2 = compute_code(win, loc'.x2, loc'.y2)
               /\ <<loc'.x1, loc'.y1, loc'.code1>> = <<loc.x1, loc.y1, loc.code1>>]_vars

\* The first endpoint, beyond the top and the right boundary, has been moved
\* to the top boundary and is still beyond the right one.
C21_Witness ==
    /\ pc = "clip_loop"
    /\ loc.iter = 1
    /\ args.y1 > win[4] /\ args.x1 > win[3]
    /\ loc.y1 = RInt(win[4])
    /\ HasBit(loc.code1, RIGHT)

\* --- further claims about SutherlandHodgman.clip_polygon

\* The four boundaries of the window, each as the directed edge the clipper
\* passes to _clip_edge.
BottomEdge == <<(<<win[1], win[2]>>), (<<win[3], win[2]>>)>>
RightEdge  == <<(<<win[3], win[2]>>), (<<win[3], win[4]>>)>>
TopEdge    == <<(<<win[3], win[4]>>), (<<win[1], win[4]>>)>>
LeftEdge   == <<(<<win[1], win[4]>>), (<<win[1], win[2]>>)>>

PassOrder == <<BottomEdge, RightEdge, TopEdge, LeftEdge>>

\* C22: the passes run in the order bottom, right, top, left, each clipping
\* the output of the pass before it (the first one the input polygon); a pass
\* only runs on a non-empty list, so once a pass yields the empty list no
\* later pass runs and the result is empty.
C22_PassOrder ==
    /\ [][(pc = "poly_call") => loc'.passes = <<>> /\ loc'.output = AsFloats(args)]_vars
    /\ [][(pc = "poly_loop" /\ loc' # loc) =>
             LET n == Len(loc.passes) + 1
             IN  /\ loc.output # <<>>
                 /\ n <= 4
                 /\ Len(loc'.passes) = n
                 /\ loc'.took = loc.output
                 /\ loc'.edge = PassOrder[n]]_vars
    /\ [](pc = "poly_done" =>
             /\ ret = loc.output
             /\ Len(loc.passes) < 4 => ret = <<>>)

\* A call that stopped early: the right pass emptied the list, the top and
\* left passes never ran.
C22_Witness ==
    /\ pc = "poly_done"
    /\ Len(args) # 0
    /\ Len(loc.passes) = 2
    /\ ret = <<>>

\* --- CohenSutherland.clip_line with its arithmetic rounded
\*
\* The interpolation of lines 418-428 is computed in floats: each of its
\* subtractions, its product, its quotient and its sum is rounded (here to
\* Precision significant bits).  The tests on the outcodes and the choice of
\* the endpoint are those of the exact model above.

FSub(a, b) == FAdd(a, FNeg(b))

\* A plausible slip: the loop keeps replacing the same endpoint by itself.
ClipIntersectFlStuck(w, l) ==
    IF ClipCodeOut(l) = l.code1 THEN <<l.x1, l.y1>> ELSE <<l.x2, l.y2>>

\* x1 + (x2 - x1) * (y_b - y1) / (y2 - y1) and its transpose, rounded.
ClipIntersectFl(w, l) ==
    LET c == ClipCodeOut(l)
        dx == FSub(l.x2, l.x1)
        dy == FSub(l.y2, l.y1)
    IN  IF HasBit(c, TOP)
        THEN <<FAdd(l.x1, FDiv(FMul(dx, FSub(RInt(w[4]), l.y1)), dy)), RInt(w[4])>>
        ELSE IF HasBit(c, BOTTOM)
        THEN <<FAdd(l.x1, FDiv(FMul(dx, FSub(RInt(w[2]), l.y1)), dy)), RInt(w[2])>>
        ELSE IF HasBit(c, RIGHT)
        THEN <<RInt(w[3]), FAdd(l.y1, FDiv(FMul(dy, FSub(RInt(w[3]), l.x1)), dx))>>
        ELSE <<RInt(w[1]), FAdd(l.y1, FDiv(FMul(dy, FSub(RInt(w[1]), l.x1)), dx))>>

\* Lines 411-436 with rounding.  The difference of two distinct floats is not
\* zero, so the divisor is zero exactly where the exact one is.
ClipIterationFl(w, l) ==
    IF ClipDivisor(l) = RZero
    THEN [l EXCEPT !.raised = TRUE]
    ELSE LET q == CHOOSE v \in {ClipIntersectFl(w, l)} : TRUE
         IN  IF ClipCodeOut(l) = l.code1
             THEN [l EXCEPT !.x1 = q[1], !.y1 = q[2],
                            !.code1 = compute_code(w, q[1], q[2]),
                            !.iter = @ + 1]
             ELSE [l EXCEPT !.x2 = q[1], !.y2 = q[2],
                            !.code2 = compute_code(w, q[1], q[2]),
                            !.iter = @ + 1]

\* A segment through the corner (10,10) of the window (0,0,10,10).
ClipCornerExample == [x1 |-> 12, y1 |-> -4, x2 |-> 9, y2 |-> 17]

InitClipFl ==
    /\ \/ win \in Windows /\ args \in ClipArgs
       \/ win = <<0, 0, 10, 10>> /\ args \in ClipExamples \cup {ClipCornerExample}
    /\ pc = "clip_call"
    /\ loc = NoLoc
    /\ ret = NoRet

ClipReplaceFl ==
    /\ pc = "clip_loop"
    /\ ~ClipTrivialAccept(loc)
    /\ ~ClipTrivialReject(loc)
    /\ loc' = ClipIterationFl(win, loc)
    /\ IF loc'.raised
       THEN pc' = "clip_raised" /\ ret' = Raised
       ELSE pc' = "clip_loop" /\ ret' = ret
    /\ UNCHANGED <<win, args>>

NextClipFl == ClipCall \/ ClipAccept \/ ClipReject \/ ClipReplaceFl

SpecClipFl == InitClipFl /\ [][NextClipFl]_vars

MeetCandidates ==
    {RZero, RInt(1)}
    \cup (IF args.x2 = args.x1 THEN {}
          ELSE {Rat(win[1] - args.x1, args.x2 - args.x1),
                Rat(win[3] - args.x1, args.x2 - args.x1)})
    \cup (IF args.y2 = args.y1 THEN {}
          ELSE {Rat(win[2] - args.y1, args.y2 - args.y1),
                Rat(win[4] - args.y1, args.y2 - args.y1)})

\* The point of the argument segment at parameter t.
ArgAt(t) == <<RAdd(ArgA[1], RMul(t, ArgD[1])), RAdd(ArgA[2], RMul(t, ArgD[2]))>>

\* The argument segment has a point in the closed window.
ArgMeetsWindow ==
    \E t \in MeetCandidates :
        /\ RLe(RZero, t) /\ RLe(t, RInt(1))
        /\ InWindow(win, ArgAt(t)[1], ArgAt(t)[2])

\* C24: a call accepts exactly the segments that have a point in the closed
\* window.
C24_AcceptsIffMeets ==
    pc = "clip_done" => (ret.accepted <=> ArgMeetsWindow)

\* C25: every vertex clip_polygon returns lies in the closed window, whatever
\* the window (zero width or height included) and the polygon.
C25_ClippedInsideWindow ==
    pc = "poly_done" => \A i \in 1..Len(ret) : InWindow(win, ret[i][1], ret[i][2])

\* --- SutherlandHodgman.clip_polygon with its arithmetic rounded
\*
\* The cross product of inside() and the interpolation of intersection() are
\* computed in floats: every subtraction, product, quotient and sum is rounded
\* (here to Precision significant bits).

\* inside(p): the rounded cross product is >= 0.
EdgeInsideFl(p, es, ee) ==
    RLe(RZero,
        FSub(FMul(RInt(ee[1] - es[1]), FSub(p[2], RInt(es[2]))),
             FMul(RInt(ee[2] - es[2]), FSub(p[1], RInt(es[1])))))

\* (x1 + t * (x2 - x1), y1 + t * (y2 - y1))
EdgeAtFl(p1, p2, t) ==
    <<FAdd(p1[1], FMul(t, FSub(p2[1], p1[1]))), FAdd(p1[2], FMul(t, FSub(p2[2], p1[2])))>>

\* intersection(p1, p2) with the clip edge from es to ee.  The non-zero
\* denominators the model meets are far above 1e-10.
EdgeIntersectionFl(p1, p2, es, ee) ==
    LET x3 == RInt(es[1])
        y3 == RInt(es[2])
        x4 == RInt(ee[1])
        y4 == RInt(ee[2])
        denom == FSub(FMul(FSub(p1[1], p2[1]), FSub(y3, y4)),
                      FMul(FSub(p1[2], p2[2]), FSub(x3, x4)))
        numer == FSub(FMul(FSub(p1[1], x3), FSub(y3, y4)),
                      FMul(FSub(p1[2], y3), FSub(x3, x4)))
    IN  CHOOSE q \in {IF NearZero(d) THEN p1
                      ELSE CHOOSE r \in {EdgeAtFl(p1, p2, t) : t \in {FDiv(numer, d)}} : TRUE :
                      d \in {denom}} : TRUE

\* What iteration i of the loop of _clip_edge appends to output.
EdgeEmitFl(polygon, i, es, ee) ==
    LET current == polygon[i]
        next_vertex == polygon[(i % Len(polygon)) + 1]
    IN  IF EdgeInsideFl(current, es, ee)
        THEN IF EdgeInsideFl(next_vertex, es, ee)
             THEN <<next_vertex>>
             ELSE <<EdgeIntersectionFl(current, next_vertex, es, ee)>>
        ELSE IF EdgeInsideFl(next_vertex, es, ee)
             THEN <<EdgeIntersectionFl(current, next_vertex, es, ee), next_vertex>>
             ELSE <<>>

RECURSIVE ClipEdgeFromFl(_, _, _, _)
ClipEdgeFromFl(polygon, i, es, ee) ==
    IF i > Len(polygon) THEN <<>>
    ELSE EdgeEmitFl(polygon, i, es, ee) \o ClipEdgeFromFl(polygon, i + 1, es, ee)

\* _clip_edge(polygon, edge_start, edge_end)
clip_edge_fl(polygon, es, ee) ==
    IF Len(polygon) = 0 THEN <<>> ELSE ClipEdgeFromFl(polygon, 1, es, ee)

\* One iteration of the loop of clip_polygon: the pass against edge k.
PolyPassFl(w, l) ==
    [l EXCEPT !.output = clip_edge_fl(l.output, WindowEdges(w)[l.k][1], WindowEdges(w)[l.k][2]),
              !.k = @ + 1,
              !.passes = Append(@, l.k),
              !.took = l.output,
              !.edge = WindowEdges(w)[l.k]]

RECURSIVE PolyRunFl(_, _)
PolyRunFl(w, l) == IF PolyMore(l) THEN PolyRunFl(w, PolyPassFl(w, l)) ELSE l

\* The whole method on a list of float vertices, as a value.
clip_polygon_fl(w, vertices) ==
    PolyRunFl(w, [output |-> vertices, k |-> 1, passes |-> <<>>,
                  took |-> <<>>, edge |-> <<>>]).output

\* A triangle that covers the corner (0,0) of the window (0,0,1,1).
PolyCornerExample == << <<-2, 1>>, <<-1, -2>>, <<2, 0>> >>

InitPolyFl ==
    /\ \/ win \in PolyWindows /\ args \in Triangles
       \/ win = <<0, 0, 10, 10>> /\ args = PolyExample
       \/ win = <<0, 0, 1, 1>> /\ args = PolyCornerExample
    /\ pc = "poly_call"
    /\ loc = NoLoc
    /\ ret = NoRet

PolyStepFl ==
    /\ pc = "poly_loop"
    /\ PolyMore(loc)
    /\ loc' = PolyPassFl(win, loc)
    /\ UNCHANGED <<win, args, pc, ret>>

NextPolyFl == PolyCall \/ PolyStepFl \/ PolyReturn

SpecPolyFl == InitPolyFl /\ [][NextPolyFl]_vars

\* Every vertex of the argument polygon lies in the closed window.
ArgInsideWindow == \A i \in 1..Len(args) : InWindow(win, RInt(args[i][1]), RInt(args[i][2]))

\* C26: a polygon whose vertices all lie in the closed window is returned as
\* a rotation of itself, and clipping a result of clip_polygon again returns a
\* rotation of that result.
C26_ClipIdempotent ==
    pc = "poly_done" =>
        /\ ArgInsideWindow => ret \in Rotations(AsFloats(args))
        /\ clip_polygon_fl(win, ret) \in Rotations(ret) \cup {ret}

\* --- further claims about filled_polygon

\* The integer scanlines from one below to one above the vertex grid.
Scanlines == (-2)..(MaxFill + 1)

\* C27: for a polygon of at least 3 vertices every integer scanline has an
\* even number of intersections, so no scanline of the loop leaves an
\* intersection unpaired.
C27_EvenIntersections ==
    (pc \in {"fillpoly_loop", "fillpoly_done"} /\ Len(args) >= 3) =>
        /\ \A y \in Scanlines : Len(Intersections(args, y)) % 2 = 0
        /\ ~loc.odd

\* A filled quadrilateral one of whose scanlines has four intersections.
C27_Witness ==
    /\ pc = "fillpoly_done"
    /\ Len(args) = 4
    /\ \E y \in Scanlines : Len(Intersections(args, y)) = 4
    /\ ~loc.odd

\* --- further claims about the circle and ellipse rasterizers

\* C28: for r >= 0 every pixel of midpoint_circle(xc, yc, r) is a pixel of
\* filled_circle(xc, yc, r), and for rx, ry >= 0 every pixel of
\* midpoint_ellipse(xc, yc, rx, ry) is one of filled_ellipse(xc, yc, rx, ry).
C28_OutlineInsideFill ==
    /\ (pc = "midcircle_done" /\ args.r >= 0) =>
           PointSet(ret) \subseteq PointSet(filled_circle(args.xc, args.yc, args.r))
    /\ (pc = "midellipse_done" /\ args.rx >= 0 /\ args.ry >= 0) =>
           PointSet(ret) \subseteq
               PointSet(filled_ellipse(args.xc, args.yc, args.rx, args.ry))

\* The outline of an ellipse with two different positive semi-axes, whose fill
\* holds pixels the outline does not.
C28_Witness ==
    /\ pc = "midellipse_done"
    /\ args.rx > 1 /\ args.ry > 1 /\ args.rx # args.ry
    /\ PointSet(ret) # PointSet(filled_ellipse(args.xc, args.yc, args.rx, args.ry))
    /\ PointSet(ret) \subseteq PointSet(filled_ellipse(args.xc, args.yc, args.rx, args.ry))

\* C29: for rx, ry >= 0 every pixel midpoint_ellipse or filled_ellipse returns
\* lies in the bounding box |x - xc| <= rx, |y - yc| <= ry.
C29_EllipseInBox ==
    (EllipseDone /\ args.rx >= 0 /\ args.ry >= 0) =>
        \A q \in PointSet(ret) :
            Abs(q[1] - args.xc) <= args.rx /\ Abs(q[2] - args.yc) <= args.ry

\* A filled ellipse with two different positive semi-axes that reaches all
\* four sides of its bounding box.
C29_Witness ==
    /\ pc = "fillellipse_done"
    /\ args.rx > 0 /\ args.ry > 0 /\ args.rx # args.ry
    /\ \E q \in PointSet(ret) : q[1] - args.xc = args.rx
    /\ \E q \in PointSet(ret) : args.xc - q[1] = args.rx
    /\ \E q \in PointSet(ret) : q[2] - args.yc = args.ry
    /\ \E q \in PointSet(ret) : args.yc - q[2] = args.ry

\* --- AirplaneGame: the game-state machine (src/main.py)
\*
\* `loc` holds the fields of the game object, `pc` the position of run() in
\* its loop, `args` the input of the handler that ran last (an event or the dt
\* of update) and `ret` what the last update did.  Positions are not modelled:
\* whether a missile or a canister overlaps the airplane or has left the screen
\* depends on random spawn heights and speeds, so each outcome of those tests
\* is a choice.  The scenery (clouds, stars, ground) is left out; it is only
\* touched after the early return of update.

MENU == 0
PLAYING == 1
PAUSED == 2
GAME_OVER == 3

\* Airplane.__init__: fuel = max_fuel = 100.0
max_fuel == 100

\* The airplane, missiles, canisters and explosions of a new game, and the
\* statistics reset (init_game_objects).
init_game_objects(self) ==
    [self EXCEPT !.fuel = max_fuel, !.is_boosting = FALSE,
                 !.missiles = 0, !.missile_spawn_timer = 0,
                 !.missile_spawn_interval = RInt(2),
                 !.fuel_canisters = 0, !.fuel_spawn_timer = 0,
                 !.explosions = 0,
                 !.distance = 0, !.missiles_dodged = 0, !.scroll_speed = 100]

\* AirplaneGame.__init__
GameInit ==
    init_game_objects(
        [state |-> MENU, running |-> TRUE,
         keys |-> [up |-> FALSE, down |-> FALSE, boost |-> FALSE],
         fuel |-> 0, is_boosting |-> FALSE,
         missiles |-> 0, missile_spawn_timer |-> 0, missile_spawn_interval |-> RInt(2),
         fuel_canisters |-> 0, fuel_spawn_timer |-> 0, explosions |-> 0,
         distance |-> 0, missiles_dodged |-> 0, scroll_speed |-> 100])

\* The keys handle_events tells apart (K_w and K_s act as K_UP and K_DOWN);
\* "x" is any other key.
Keys == {"ESCAPE", "SPACE", "UP", "DOWN", "p", "x"}

\* A plausible slip: SPACE in GAME_OVER resumes without a new game.
KeyDownNoReset(self, key) ==
    IF key = "ESCAPE"
    THEN IF self.state = PLAYING THEN [self EXCEPT !.state = PAUSED]
         ELSE IF self.state = PAUSED THEN [self EXCEPT !.state = PLAYING]
         ELSE [self EXCEPT !.running = FALSE]
    ELSE IF key = "SPACE"
    THEN IF self.state = MENU
         THEN init_game_objects([self EXCEPT !.state = PLAYING])
         ELSE IF self.state = GAME_OVER
         THEN [self EXCEPT !.state = PLAYING]
         ELSE IF self.state = PLAYING THEN [self EXCEPT !.keys.boost = TRUE]
         ELSE self
    ELSE IF key = "UP" THEN [self EXCEPT !.keys.up = TRUE]
    ELSE IF key = "DOWN" THEN [self EXCEPT !.keys.down = TRUE]
    ELSE IF key = "p"
    THEN IF self.state = PLAYING THEN [self EXCEPT !.state = PAUSED]
         ELSE IF self.state = PAUSED THEN [self EXCEPT !.state = PLAYING]
         ELSE self
    ELSE self

\* handle_events, the KEYDOWN branch (lines 134-162).
KeyDown(self, key) ==
    IF key = "ESCAPE"
    THEN IF self.state = PLAYING THEN [self EXCEPT !.state = PAUSED]
         ELSE IF self.state = PAUSED THEN [self EXCEPT !.state = PLAYING]
         ELSE [self EXCEPT !.running = FALSE]
    ELSE IF key = "SPACE"
    THEN IF self.state = MENU
         THEN init_game_objects([self EXCEPT !.state = PLAYING])
         ELSE IF self.state = GAME_OVER
         THEN init_game_objects([self EXCEPT !.state = PLAYING])
         ELSE IF self.state = PLAYING THEN [self EXCEPT !.keys.boost = TRUE]
         ELSE self
    ELSE IF key = "UP" THEN [self EXCEPT !.keys.up = TRUE]
    ELSE IF key = "DOWN" THEN [self EXCEPT !.keys.down = TRUE]
    ELSE IF key = "p"
    THEN IF self.state = PLAYING THEN [self EXCEPT !.state = PAUSED]
         ELSE IF self.state = PAUSED THEN [self EXCEPT !.state = PLAYING]
         ELSE self
    ELSE self

\* handle_events, the KEYUP branch (lines 164-170).
KeyUp(self, key) ==
    IF key = "SPACE" THEN [self EXCEPT !.keys.boost = FALSE]
    ELSE IF key = "UP" THEN [self EXCEPT !.keys.up = FALSE]
    ELSE IF key = "DOWN" THEN [self EXCEPT !.keys.down = FALSE]
    ELSE self

\* Airplane.update(dt, keys), the fuel and the boost (lines 216-227).
AirplaneUpdate(self, dt) ==
    LET boosting == self.keys.boost /\ self.fuel > 0
        burnt == self.fuel - (IF boosting THEN 20 * dt ELSE 0) - 2 * dt
    IN  [self EXCEPT !.is_boosting = boosting, !.fuel = Max(0, burnt)]

\* Lines 204-212: the distance, the scroll speed and the spawn interval
\* max(0.5, 2.0 - distance / 5000).
Advance(self, dt) ==
    LET effective2 == IF self.is_boosting THEN 3 * self.scroll_speed ELSE 2 * self.scroll_speed
        d == self.distance + ((effective2 * dt) \div 2)
        i == RSub(RInt(2), Rat(d, 5000))
    IN  [self EXCEPT !.distance = d,
                     !.scroll_speed = 100 + (d \div 500),
                     !.missile_spawn_interval = IF RLt(i, Rat(1, 2)) THEN Rat(1, 2) ELSE i]

\* Lines 214-228: the spawn timers; `extra` is random.random() < 0.3.
Spawn(self, dt, extra) ==
    LET mt == self.missile_spawn_timer + dt
        ft == self.fuel_spawn_timer + dt
        m == RLe(self.missile_spawn_interval, RInt(mt))
        f == ft >= 8
    IN  [self EXCEPT !.missile_spawn_timer = IF m THEN 0 ELSE mt,
                     !.missiles = @ + (IF m THEN (IF extra THEN 2 ELSE 1) ELSE 0),
                     !.fuel_spawn_timer = IF f THEN 0 ELSE ft,
                     !.fuel_canisters = @ + (IF f THEN 1 ELSE 0)]

\* Lines 230-243: the loop over the missiles; `gone` of them have left the
\* screen before one collides (hit) or the list ends.
UpdateMissiles(self, gone, hit) ==
    LET s == [self EXCEPT !.missiles = @ - gone, !.missiles_dodged = @ + gone]
    IN  IF hit THEN [s EXCEPT !.explosions = @ + 1, !.state = GAME_OVER] ELSE s

\* Lines 245-255: the loop over the canisters; `got` are collected, `lost`
\* have left the screen.
UpdateCanisters(self, got, lost) ==
    [self EXCEPT !.fuel = Min(max_fuel, @ + 25 * got),
                 !.fuel_canisters = @ - (got + lost)]

\* AirplaneGame.update(dt)
UpdateGame(self, dt, extra, gone, hit, got, lost) ==
    IF self.state # PLAYING THEN self
    ELSE LET a == AirplaneUpdate(self, dt)
         IN  IF a.fuel <= 0
             THEN [a EXCEPT !.explosions = @ + 1, !.state = GAME_OVER]
             ELSE LET m == UpdateMissiles(Spawn(Advance(a, dt), dt, extra), gone, hit)
                  IN  IF hit THEN m ELSE UpdateCanisters(m, got, lost)

\* The frame times passed to update, in seconds (a long frame brings the
\* spawns and the end of the fuel within a few calls); the distance of a game
\* is followed up to 100 * MaxDistance, with at most MaxMissiles missiles and
\* MaxCanisters canisters on screen.
Dts == {4, 50}
MaxDistance == 8
MaxMissiles == 2
MaxCanisters == 1

NoEvent == [type |-> "NONE", key |-> "", dt |-> 0]
Idle == [over |-> "no"]

InitGame ==
    /\ win = NoWin
    /\ args = NoEvent
    /\ pc = "game_events"
    /\ loc = GameInit
    /\ ret = Idle

\* event.type == QUIT
GameQuit ==
    /\ pc = "game_events"
    /\ args' = [type |-> "QUIT", key |-> "", dt |-> 0]
    /\ loc' = [loc EXCEPT !.running = FALSE]
    /\ UNCHANGED <<win, pc, ret>>

GameKeyDown ==
    /\ pc = "game_events"
    /\ \E key \in Keys :
          /\ args' = [type |-> "KEYDOWN", key |-> key, dt |-> 0]
          /\ loc' = KeyDown(loc, key)
    /\ UNCHANGED <<win, pc, ret>>

GameKeyUp ==
    /\ pc = "game_events"
    /\ \E key \in Keys :
          /\ args' = [type |-> "KEYUP", key |-> key, dt |-> 0]
          /\ loc' = KeyUp(loc, key)
    /\ UNCHANGED <<win, pc, ret>>

\* The event queue is empty: run() goes on to update.
GameEventsDone ==
    /\ pc = "game_events"
    /\ pc' = "game_update"
    /\ UNCHANGED <<win, args, loc, ret>>

\* update(dt), then render; the loop ends when running is false.  The choices
\* are those of the random draws and of the overlap tests; a call that does
\* not reach them has none.
GameUpdate ==
    /\ pc = "game_update"
    /\ \E dt \in Dts, extra \in BOOLEAN, hit \in BOOLEAN,
          gone \in 0..MaxMissiles, got \in 0..MaxCanisters, lost \in 0..MaxCanisters :
          LET over == loc.state = PLAYING /\ AirplaneUpdate(loc, dt).fuel <= 0
              s == Spawn(Advance(AirplaneUpdate(loc, dt), dt), dt, extra)
          IN  /\ IF loc.state = PLAYING /\ ~over
                 THEN /\ s.distance <= 100 * MaxDistance
                      /\ s.missiles <= MaxMissiles
                      /\ s.fuel_canisters <= MaxCanisters
                      /\ gone + (IF hit THEN 1 ELSE 0) <= s.missiles
                      /\ IF hit THEN got = 0 /\ lost = 0
                         ELSE got + lost <= s.fuel_canisters
                 ELSE ~extra /\ ~hit /\ gone = 0 /\ got = 0 /\ lost = 0
              /\ args' = [type |-> "UPDATE", key |-> "", dt |-> dt]
              /\ loc' = UpdateGame(loc, dt, extra, gone, hit, got, lost)
              /\ ret' = [over |-> IF over THEN "fuel" ELSE IF hit THEN "missile" ELSE "no"]
    /\ pc' = IF loc.running THEN "game_events" ELSE "game_quit"
    /\ UNCHANGED win

NextGame == GameQuit \/ GameKeyDown \/ GameKeyUp \/ GameEventsDone \/ GameUpdate

SpecGame == InitGame /\ [][NextGame]_vars

KeyDownOf(key) == [type |-> "KEYDOWN", key |-> key, dt |-> 0]

\* The game objects are those of a new game.
NewGame(self) ==
    /\ self.fuel = max_fuel
    /\ self.distance = 0
    /\ self.missiles_dodged = 0
    /\ self.missiles = 0 /\ self.fuel_canisters = 0 /\ self.explosions = 0

\* C30: update changes nothing unless the state is PLAYING; GAME_OVER is
\* entered only from PLAYING, by an update in which the fuel is used up or a
\* missile collides; PLAYING and PAUSED are exchanged only by ESC or P; MENU
\* and GAME_OVER are left for PLAYING only by SPACE, which starts a new game;
\* ESC in MENU or GAME_OVER clears `running`, and the loop ends after the
\* update of the frame in which `running` is false.
C30_GameStateMachine ==
    /\ [][(pc = "game_update" /\ loc.state # PLAYING) => loc' = loc]_vars
    /\ [][(loc'.state = GAME_OVER /\ loc.state # GAME_OVER) =>
             /\ loc.state = PLAYING
             /\ pc = "game_update"
             /\ \/ ret'.over = "fuel" /\ loc'.fuel <= 0
                \/ ret'.over = "missile"]_vars
    /\ [][(<<loc.state, loc'.state>> \in {<<PLAYING, PAUSED>>, <<PAUSED, PLAYING>>}) =>
             /\ pc = "game_events"
             /\ args' \in {KeyDownOf("ESCAPE"), KeyDownOf("p")}]_vars
    /\ [][(loc.state \in {MENU, GAME_OVER} /\ loc'.state = PLAYING) =>
             /\ pc = "game_events"
             /\ args' = KeyDownOf("SPACE")
             /\ NewGame(loc')]_vars
    /\ [][(pc = "game_events" /\ pc' = pc /\ args' = KeyDownOf("ESCAPE")
              /\ loc.state \in {MENU, GAME_OVER}) =>
             /\ ~loc'.running
             /\ loc'.state = loc.state]_vars
    /\ [][(pc = "game_update" /\ ~loc.running) => pc' = "game_quit"]_vars

\* A game that a missile ended has been started again with SPACE.
C30_Witness ==
    /\ pc = "game_events"
    /\ args = KeyDownOf("SPACE")
    /\ ret.over = "missile"
    /\ loc.state = PLAYING
    /\ NewGame(loc)
    /\ ~loc.keys.boost

====
